---- MODULE Spec2Model ----
(***************************************************************************)
(* Model of github.com/MatthiasKunnen/system: the session-lock facility    *)
(* (pkg/lock, type dbusCon), the inhibition facility (pkg/inhibit, type    *)
(* Inhibitor) and the idle-notification facility (pkg/idle).               *)
(*                                                                         *)
(* One behaviour follows one facility object from its constructor on; the  *)
(* variable `facility` says which constructor ran.  The three packages     *)
(* share no state.  The D-Bus transport (AddMatchSignal, RemoveMatchSignal)*)
(* and the Wayland client are external collaborators: each of their calls  *)
(* succeeds or fails.                                                      *)
(***************************************************************************)
EXTENDS Integers, Sequences, FiniteSets, TLC

\* Capacity of the buffered subscriber channels (make(chan T, BufCap)).
BufCap == 1
\* How many times each caller goroutine calls Notification.Close.
MaxCloseCalls == 2

\* The nil channel.
Nil == "nil"
\* chan<- struct{} identities handed to AddLockSignal / RemoveLockSignal.
LockChans == {"s1", "s2"}
\* chan<- struct{} identities handed to AddUnlockSignal / RemoveUnlockSignal.
UnlockChans == {"s2"}
\* chan<- bool identities handed to AddLockedSignal / RemoveLockedSignal.
LockedChans == {"b2"}
\* chan<- bool identities handed to the Inhibitor.
BoolChans == {"b1", "b2"}
Chans == LockChans \cup UnlockChans \cup LockedChans \cup BoolChans
\* s1 and b1 are unbuffered (make(chan T)), s2 and b2 are buffered.
Cap(c) == IF c \in {"s1", "b1"} THEN 0 ELSE BufCap
\* The goroutines that call Notification.Close: g1 is the owner thread,
\* calling it from inside a function it took from the dispatch channel (an
\* event handler run by the display's dispatch), g2 is another goroutine.
Closers == {"g1", "g2"}
OwnerThread == "g1"
\* The handlers AddNotification sets on a notification, by the event they take.
HandlerKinds == {"Idled", "Resumed"}
\* The goroutines of one handler that wait in their select at a time.
MaxSenders == 2
\* The goroutines of a session-lock or inhibition facility: two callers and
\* the reader goroutine the constructor starts.
Callers == {"g1", "g2"}
Goroutines == Callers \cup {"reader"}

VARIABLES
    facility,                 \* "lock" | "inhibit" | "idle": the object under study
    panicked,                 \* a goroutine of the process has panicked
    \* ---- pkg/lock dbusCon
    lockSignals,
    lockedHintSignals,
    unlockSignals,
    lockSignalActive,
    propertiesChangedActive,
    unlockSignalActive,
    dc_closeSignalHandler,    \* "open" | "closed"
    \* ---- pkg/inhibit Inhibitor
    prepareForSleepSubs,
    prepareForShutdownSubs,
    i_closeSignalHandler,     \* "nil" | "open" | "closed"
    \* ---- the subscribers' channels
    buf,                      \* channel -> queued values
    recvWaiting,              \* channels with a consumer blocked in a receive
    \* ---- pkg/idle waylandIdleController and one waylandIdleNotification
    controller,               \* "returned" | "nil": what the constructor returned
    m_close,                  \* the channel m.close: "open" | "closed"
    n_closed,                 \* the notification's field closed
    pc,                       \* closer -> "idle" | "checked" (inside Close, past the if)
    calls,                    \* closer -> Close calls begun
    helpers,                  \* goroutines of Close blocked in their select
    destroyed,                \* executions of notification.Destroy()
    dropped,                  \* destroy requests given up on shutdown
    senders,                  \* handler kind -> goroutines of the handler blocked in their select
    \* ---- what the last call did (arguments, result, transport calls)
    last,
    \* ---- pkg/idle: the owner thread and the producer of dispatch functions
    owner,                    \* at: the owner loop is in its "select" | in the "callback" of a dispatch function;
                              \* producer: the goroutine feeding dispatchChan is "running" | "returned"
    \* ---- one call of AddNotification, of Inhibit and of NewDbusSessionLock:
    \*      state "unused" | "pending" | "returned", the input, the outcome
    addNotification,
    inhibitCall,
    newLock,
    \* ---- the goroutines of a facility and its mutex
    muSignals,                \* the mutex muSignals: "free" or the goroutine holding it
    gpc,                      \* goroutine -> "idle" | "received" (reader) | "locked" | "ran"
    matchRules,               \* the signal kinds whose match rule is on the bus
    reader,                   \* the reader goroutine: c registered with the connection, the
                              \* times it took the shutdown case, and the signal v it holds
    \* ---- the values of one kind in the order the reader got them, and per
    \*      channel the values its consumer has received, in order
    order

lockVars == <<lockSignals, lockedHintSignals, unlockSignals, lockSignalActive,
              propertiesChangedActive, unlockSignalActive, dc_closeSignalHandler>>
inhibitVars == <<prepareForSleepSubs, prepareForShutdownSubs, i_closeSignalHandler>>
chanVars == <<buf, recvWaiting>>
idleVars == <<controller, m_close, n_closed, pc, calls, helpers, destroyed, dropped,
              senders>>
callVars == <<addNotification, inhibitCall, newLock>>
concVars == <<muSignals, gpc, matchRules, reader>>
objVars == <<facility, panicked, lockVars, inhibitVars, chanVars, idleVars, last>>
vars == <<objVars, owner, callVars, concVars, order>>

\* The record kept of a call: op and kind name the method, ch its channel
\* argument, ret its result ("ok" = nil error, "err" = non-nil error,
\* "panic"), addIssued / rmIssued the AddMatchSignal / RemoveMatchSignal
\* calls it made, each with its kind and the transport's answer; val,
\* attempts, delivered and blocked describe a fan-out: the value sent, the
\* number of sends attempted per channel, the channels that took the value,
\* and whether a send blocked.
NoAttempts == [c \in Chans |-> 0]
\* One transport call for a kind's match rule, answered nil (ok) or an error.
Tx(kind, ok) == {[kind |-> kind, ok |-> ok]}
Kinds(txs) == {x.kind : x \in txs}
Failed(txs) == {x.kind : x \in {y \in txs : ~y.ok}}
Call(op, kind, ch, ret, add, rm) ==
    [op |-> op, kind |-> kind, ch |-> ch, ret |-> ret,
     addIssued |-> add, rmIssued |-> rm,
     val |-> "none", attempts |-> NoAttempts, delivered |-> {}, blocked |-> FALSE]
NoCall == Call("none", "none", Nil, "ok", {}, {})

\* errors.Join of the results of several steps: nil iff every step returned nil.
Join(results) == IF \A r \in results : r THEN "ok" ELSE "err"

\* A nil *dbus.Signal.
NilSignal == [isNil |-> TRUE, path |-> "none", name |-> "none", body |-> "none"]

\* The state the constructors leave: NewDbusSessionLock makes the three maps,
\* clears the three flags and makes closeSignalHandler; New makes the two
\* maps and leaves closeSignalHandler nil; NewWaylandIdleController makes
\* close and either returns the controller or, when no notifier was bound,
\* calls Close on it and returns nil.
Fresh ==
    /\ panicked = FALSE
    /\ lockSignals = {}
    /\ lockedHintSignals = {}
    /\ unlockSignals = {}
    /\ lockSignalActive = FALSE
    /\ propertiesChangedActive = FALSE
    /\ unlockSignalActive = FALSE
    /\ dc_closeSignalHandler = "open"
    /\ prepareForSleepSubs = {}
    /\ prepareForShutdownSubs = {}
    /\ i_closeSignalHandler = "nil"
    /\ buf = [c \in Chans |-> <<>>]
    /\ recvWaiting = {}
    /\ n_closed = FALSE
    /\ pc = [g \in Closers |-> "idle"]
    /\ calls = [g \in Closers |-> 0]
    /\ helpers = 0
    /\ destroyed = 0
    /\ dropped = 0
    /\ senders = [h \in HandlerKinds |-> 0]
    /\ last = NoCall
    /\ owner = [at |-> "select", producer |-> "running"]
    /\ muSignals = "free"
    /\ gpc = [g \in Goroutines |-> "idle"]
    /\ matchRules = {}
    /\ reader = [registered |-> TRUE, closeSeen |-> 0, v |-> NilSignal]
    /\ order = [dispatched |-> <<>>, received |-> [c \in Chans |-> <<>>]]

\* No call of AddNotification, Inhibit or NewDbusSessionLock is under study.
Unused == [state |-> "unused"]

Init ==
    /\ facility \in {"lock", "inhibit", "idle"}
    /\ Fresh
    /\ \/ controller = "returned" /\ m_close = "open"
       \/ facility = "idle" /\ controller = "nil" /\ m_close = "closed"
    /\ addNotification = Unused
    /\ inhibitCall = Unused
    /\ newLock = Unused

----------------------------------------------------------------------------
(* pkg/lock: subscribe / unsubscribe                                       *)

AddLockSignal(c) ==
    /\ facility = "lock" /\ ~panicked
    /\ UNCHANGED <<facility, panicked, inhibitVars, chanVars, idleVars,
                   lockedHintSignals, unlockSignals, propertiesChangedActive,
                   unlockSignalActive, dc_closeSignalHandler>>
    /\ IF c = Nil
       THEN /\ UNCHANGED <<lockSignals, lockSignalActive>>
            /\ last' = Call("AddLockSignal", "Lock", c, "err", {}, {})
       ELSE \E ok \in BOOLEAN :
            /\ lockSignals' = lockSignals \cup {c}
            /\ IF ~lockSignalActive
               THEN /\ lockSignalActive' = ok
                    /\ last' = Call("AddLockSignal", "Lock", c,
                                    IF ok THEN "ok" ELSE "err", Tx("Lock", ok), {})
               ELSE /\ UNCHANGED lockSignalActive
                    /\ last' = Call("AddLockSignal", "Lock", c, "ok", {}, {})

\* removeLockSignal, given the outcome `ok` of the transport's RemoveMatchSignal:
\* ret is "the error is nil", active the flag afterwards, issued whether the
\* transport was called.
removeLockSignal(ok) ==
    IF ~lockSignalActive
    THEN [ret |-> TRUE, active |-> lockSignalActive, issued |-> FALSE]
    ELSE IF ok THEN [ret |-> TRUE, active |-> FALSE, issued |-> TRUE]
               ELSE [ret |-> FALSE, active |-> lockSignalActive, issued |-> TRUE]

\* RemoveLockSignal that removes the match rule for the last subscriber but
\* leaves the channel in the set.
RemoveLockSignal_KeepsLast(c) ==
    /\ facility = "lock" /\ ~panicked
    /\ UNCHANGED <<facility, panicked, inhibitVars, chanVars, idleVars,
                   lockedHintSignals, unlockSignals, propertiesChangedActive,
                   unlockSignalActive, dc_closeSignalHandler>>
    /\ IF c = Nil
       THEN /\ UNCHANGED <<lockSignals, lockSignalActive>>
            /\ last' = Call("RemoveLockSignal", "Lock", c, "err", {}, {})
       ELSE \E ok \in BOOLEAN :
            /\ lockSignals' = (IF lockSignals = {c} THEN lockSignals ELSE lockSignals \ {c})
            /\ IF lockSignals \ {c} = {}
               THEN LET r == removeLockSignal(ok) IN
                    /\ lockSignalActive' = r.active
                    /\ last' = Call("RemoveLockSignal", "Lock", c,
                                    IF r.ret THEN "ok" ELSE "err", {},
                                    IF r.issued THEN Tx("Lock", ok) ELSE {})
               ELSE /\ UNCHANGED lockSignalActive
                    /\ last' = Call("RemoveLockSignal", "Lock", c, "ok", {}, {})

RemoveLockSignal(c) ==
    /\ facility = "lock" /\ ~panicked
    /\ UNCHANGED <<facility, panicked, inhibitVars, chanVars, idleVars,
                   lockedHintSignals, unlockSignals, propertiesChangedActive,
                   unlockSignalActive, dc_closeSignalHandler>>
    /\ IF c = Nil
       THEN /\ UNCHANGED <<lockSignals, lockSignalActive>>
            /\ last' = Call("RemoveLockSignal", "Lock", c, "err", {}, {})
       ELSE \E ok \in BOOLEAN :
            /\ lockSignals' = lockSignals \ {c}
            /\ IF Cardinality(lockSignals') = 0
               THEN LET r == removeLockSignal(ok) IN
                    /\ lockSignalActive' = r.active
                    /\ last' = Call("RemoveLockSignal", "Lock", c,
                                    IF r.ret THEN "ok" ELSE "err", {},
                                    IF r.issued THEN Tx("Lock", ok) ELSE {})
               ELSE /\ UNCHANGED lockSignalActive
                    /\ last' = Call("RemoveLockSignal", "Lock", c, "ok", {}, {})

AddUnlockSignal(c) ==
    /\ facility = "lock" /\ ~panicked
    /\ UNCHANGED <<facility, panicked, inhibitVars, chanVars, idleVars,
                   lockSignals, lockedHintSignals, lockSignalActive,
                   propertiesChangedActive, dc_closeSignalHandler>>
    /\ IF c = Nil
       THEN /\ UNCHANGED <<unlockSignals, unlockSignalActive>>
            /\ last' = Call("AddUnlockSignal", "Unlock", c, "err", {}, {})
       ELSE \E ok \in BOOLEAN :
            /\ unlockSignals' = unlockSignals \cup {c}
            /\ IF ~unlockSignalActive
               THEN /\ unlockSignalActive' = ok
                    /\ last' = Call("AddUnlockSignal", "Unlock", c,
                                    IF ok THEN "ok" ELSE "err", Tx("Unlock", ok), {})
               ELSE /\ UNCHANGED unlockSignalActive
                    /\ last' = Call("AddUnlockSignal", "Unlock", c, "ok", {}, {})

removeUnlockSignal(ok) ==
    IF ~unlockSignalActive
    THEN [ret |-> TRUE, active |-> unlockSignalActive, issued |-> FALSE]
    ELSE IF ok THEN [ret |-> TRUE, active |-> FALSE, issued |-> TRUE]
               ELSE [ret |-> FALSE, active |-> unlockSignalActive, issued |-> TRUE]

\* RemoveUnlockSignal whose remove-match names the member "Lock".
RemoveUnlockSignal_LockMember(c) ==
    /\ facility = "lock" /\ ~panicked
    /\ UNCHANGED <<facility, panicked, inhibitVars, chanVars, idleVars,
                   lockSignals, lockedHintSignals, lockSignalActive,
                   propertiesChangedActive, dc_closeSignalHandler>>
    /\ IF c = Nil
       THEN /\ UNCHANGED <<unlockSignals, unlockSignalActive>>
            /\ last' = Call("RemoveUnlockSignal", "Unlock", c, "err", {}, {})
       ELSE \E ok \in BOOLEAN :
            /\ unlockSignals' = unlockSignals \ {c}
            /\ IF Cardinality(unlockSignals') = 0
               THEN LET r == removeUnlockSignal(ok) IN
                    /\ unlockSignalActive' = r.active
                    /\ last' = Call("RemoveUnlockSignal", "Unlock", c,
                                    IF r.ret THEN "ok" ELSE "err", {},
                                    IF r.issued THEN Tx("Lock", ok) ELSE {})
               ELSE /\ UNCHANGED unlockSignalActive
                    /\ last' = Call("RemoveUnlockSignal", "Unlock", c, "ok", {}, {})

RemoveUnlockSignal(c) ==
    /\ facility = "lock" /\ ~panicked
    /\ UNCHANGED <<facility, panicked, inhibitVars, chanVars, idleVars,
                   lockSignals, lockedHintSignals, lockSignalActive,
                   propertiesChangedActive, dc_closeSignalHandler>>
    /\ IF c = Nil
       THEN /\ UNCHANGED <<unlockSignals, unlockSignalActive>>
            /\ last' = Call("RemoveUnlockSignal", "Unlock", c, "err", {}, {})
       ELSE \E ok \in BOOLEAN :
            /\ unlockSignals' = unlockSignals \ {c}
            /\ IF Cardinality(unlockSignals') = 0
               THEN LET r == removeUnlockSignal(ok) IN
                    /\ unlockSignalActive' = r.active
                    /\ last' = Call("RemoveUnlockSignal", "Unlock", c,
                                    IF r.ret THEN "ok" ELSE "err", {},
                                    IF r.issued THEN Tx("Unlock", ok) ELSE {})
               ELSE /\ UNCHANGED unlockSignalActive
                    /\ last' = Call("RemoveUnlockSignal", "Unlock", c, "ok", {}, {})

AddLockedSignal(c) ==
    /\ facility = "lock" /\ ~panicked
    /\ UNCHANGED <<facility, panicked, inhibitVars, chanVars, idleVars,
                   lockSignals, unlockSignals, lockSignalActive,
                   unlockSignalActive, dc_closeSignalHandler>>
    /\ IF c = Nil
       THEN /\ UNCHANGED <<lockedHintSignals, propertiesChangedActive>>
            /\ last' = Call("AddLockedSignal", "LockedHint", c, "err", {}, {})
       ELSE \E ok \in BOOLEAN :
            /\ lockedHintSignals' = lockedHintSignals \cup {c}
            /\ IF ~propertiesChangedActive
               THEN /\ propertiesChangedActive' = ok
                    /\ last' = Call("AddLockedSignal", "LockedHint", c,
                                    IF ok THEN "ok" ELSE "err", Tx("LockedHint", ok), {})
               ELSE /\ UNCHANGED propertiesChangedActive
                    /\ last' = Call("AddLockedSignal", "LockedHint", c, "ok", {}, {})

removePropertiesChangedSignal(ok) ==
    IF ~propertiesChangedActive
    THEN [ret |-> TRUE, active |-> propertiesChangedActive, issued |-> FALSE]
    ELSE IF ok THEN [ret |-> TRUE, active |-> FALSE, issued |-> TRUE]
               ELSE [ret |-> FALSE, active |-> propertiesChangedActive, issued |-> TRUE]

RemoveLockedSignal(c) ==
    /\ facility = "lock" /\ ~panicked
    /\ UNCHANGED <<facility, panicked, inhibitVars, chanVars, idleVars,
                   lockSignals, unlockSignals, lockSignalActive,
                   unlockSignalActive, dc_closeSignalHandler>>
    /\ IF c = Nil
       THEN /\ UNCHANGED <<lockedHintSignals, propertiesChangedActive>>
            /\ last' = Call("RemoveLockedSignal", "LockedHint", c, "err", {}, {})
       ELSE \E ok \in BOOLEAN :
            /\ lockedHintSignals' = lockedHintSignals \ {c}
            /\ IF Cardinality(lockedHintSignals') = 0
               THEN LET r == removePropertiesChangedSignal(ok) IN
                    /\ propertiesChangedActive' = r.active
                    /\ last' = Call("RemoveLockedSignal", "LockedHint", c,
                                    IF r.ret THEN "ok" ELSE "err", {},
                                    IF r.issued THEN Tx("LockedHint", ok) ELSE {})
               ELSE /\ UNCHANGED propertiesChangedActive
                    /\ last' = Call("RemoveLockedSignal", "LockedHint", c, "ok", {}, {})

\* close(ch) on a channel in state h: closing a nil or an already closed
\* channel panics.
CloseChan(h) == IF h = "open" THEN [state |-> "closed", panics |-> FALSE]
                              ELSE [state |-> h, panics |-> TRUE]

\* dbusCon.Close: the three sets are cleared, each active match is removed
\* (ok1..ok3 are the transport's answers), then closeSignalHandler is closed.
dcClose ==
    /\ facility = "lock" /\ ~panicked
    /\ UNCHANGED <<facility, inhibitVars, chanVars, idleVars>>
    /\ \E ok1, ok2, ok3 \in BOOLEAN :
       LET r1 == removeLockSignal(ok1)
           r2 == removeUnlockSignal(ok2)
           r3 == removePropertiesChangedSignal(ok3)
           cl == CloseChan(dc_closeSignalHandler)
       IN /\ lockSignals' = {}
          /\ lockSignalActive' = r1.active
          /\ unlockSignals' = {}
          /\ unlockSignalActive' = r2.active
          /\ lockedHintSignals' = {}
          /\ propertiesChangedActive' = r3.active
          /\ dc_closeSignalHandler' = cl.state
          /\ panicked' = cl.panics
          /\ last' = Call("dcClose", "all", Nil,
                          IF cl.panics THEN "panic" ELSE Join({r1.ret, r2.ret, r3.ret}),
                          {},
                          (IF r1.issued THEN Tx("Lock", ok1) ELSE {})
                            \cup (IF r2.issued THEN Tx("Unlock", ok2) ELSE {})
                            \cup (IF r3.issued THEN Tx("LockedHint", ok3) ELSE {}))

----------------------------------------------------------------------------
(* Fan-out: for c := range subs { select { case c <- v: default: } }        *)

\* A send without the default case:  c <- v.  With no consumer waiting and
\* no room in the buffer it blocks.
TrySend_Blocking(st, c, v) ==
    LET tried == [st EXCEPT !.attempts[c] = @ + 1] IN
    IF c \in st.waiting
    THEN [tried EXCEPT !.waiting = @ \ {c}, !.delivered = @ \cup {c}]
    ELSE IF Len(st.buf[c]) < Cap(c)
         THEN [tried EXCEPT !.buf[c] = Append(@, v), !.delivered = @ \cup {c}]
         ELSE [tried EXCEPT !.blocked = TRUE]

\* One  select { case c <- v: default: }  on the fan-out state st.  The send
\* case is ready when a consumer is blocked receiving from c or c's buffer
\* has room; otherwise the default case is taken and v is dropped for c.
TrySend(st, c, v) ==
    LET tried == [st EXCEPT !.attempts[c] = @ + 1] IN
    IF c \in st.waiting
    THEN [tried EXCEPT !.waiting = @ \ {c}, !.delivered = @ \cup {c}]
    ELSE IF Len(st.buf[c]) < Cap(c)
         THEN [tried EXCEPT !.buf[c] = Append(@, v), !.delivered = @ \cup {c}]
         ELSE tried

\* The range loop over the subscriber set S (Go's map order: any order; the
\* channels are distinct, so the order does not change the result).  A send
\* that blocked would stop the loop.
RECURSIVE FanOut(_, _, _)
FanOut(S, v, st) ==
    IF S = {} \/ st.blocked
    THEN st
    ELSE LET c == CHOOSE x \in S : TRUE
         IN FanOut(S \ {c}, v, TrySend(st, c, v))

FanOutStart == [buf |-> buf, waiting |-> recvWaiting, attempts |-> NoAttempts,
                delivered |-> {}, blocked |-> FALSE]

\* A fan-out that sends the negation of a bool:  case c <- !change.
Deliver_Negates(op, kind, S, v) ==
    LET st == FanOut(S, CASE v = "true" -> "false" [] v = "false" -> "true" [] OTHER -> v,
                     FanOutStart) IN
    /\ buf' = st.buf
    /\ recvWaiting' = st.waiting
    /\ last' = [Call(op, kind, Nil, "ok", {}, {}) EXCEPT
                   !.val = v, !.attempts = st.attempts,
                   !.delivered = st.delivered, !.blocked = st.blocked]

\* The effect of a fan-out of v to S on the channels and on `last`.
Deliver(op, kind, S, v) ==
    LET st == FanOut(S, v, FanOutStart) IN
    /\ buf' = st.buf
    /\ recvWaiting' = st.waiting
    /\ last' = [Call(op, kind, Nil, "ok", {}, {}) EXCEPT
                   !.val = v, !.attempts = st.attempts,
                   !.delivered = st.delivered, !.blocked = st.blocked]

\* The call returns without touching anything.
Ignored(op) ==
    /\ UNCHANGED <<panicked, chanVars>>
    /\ last' = Call(op, "none", Nil, "ok", {}, {})

\* The call panics.
Panics(op, kind) ==
    /\ panicked' = TRUE
    /\ UNCHANGED chanVars
    /\ last' = Call(op, kind, Nil, "panic", {}, {})

\* Signals the transport hands to the reader goroutine of a dbusCon: nil, or
\* a signal with a path (the session's or another), a name and, for
\* PropertiesChanged, Body[1]: not a map, a map without LockedHint, a map
\* whose LockedHint is not a bool, or a map with LockedHint = true / false.
\* Channel values are written "unit" (struct{}{}), "true" and "false".
Signal(path, name, body) == [isNil |-> FALSE, path |-> path, name |-> name, body |-> body]
LockBodies == {"notmap", "nokey", "notbool", "true", "false"}
LockSignalsIn ==
    {NilSignal, Signal("other", "org.freedesktop.login1.Session.Lock", "none")}
      \cup {Signal("session", n, "none") :
               n \in {"org.freedesktop.login1.Session.Lock",
                      "org.freedesktop.login1.Session.Unlock", "other"}}
      \cup {Signal("session", "org.freedesktop.DBus.Properties.PropertiesChanged", b) :
               b \in LockBodies}

\* handleIncomingSignal returning, as for a missing LockedHint, when the
\* LockedHint is not a bool.
dcHandleIncomingSignal_SkipsNotBool(s) ==
    /\ facility = "lock" /\ ~panicked
    /\ UNCHANGED <<facility, lockVars, inhibitVars, idleVars>>
    /\ IF s.isNil THEN Ignored("dcHandleIncomingSignal")
       ELSE IF s.path # "session" THEN Ignored("dcHandleIncomingSignal")
       ELSE CASE s.name = "org.freedesktop.login1.Session.Lock" ->
                   /\ UNCHANGED panicked
                   /\ Deliver("dcHandleIncomingSignal", "Lock", lockSignals, "unit")
              [] s.name = "org.freedesktop.login1.Session.Unlock" ->
                   /\ UNCHANGED panicked
                   /\ Deliver("dcHandleIncomingSignal", "Unlock", unlockSignals, "unit")
              [] s.name = "org.freedesktop.DBus.Properties.PropertiesChanged" ->
                   IF s.body = "notmap" THEN Panics("dcHandleIncomingSignal", "LockedHint")
                   ELSE IF s.body = "nokey" THEN Ignored("dcHandleIncomingSignal")
                   ELSE IF s.body = "notbool"
                        THEN Ignored("dcHandleIncomingSignal")
                   ELSE /\ UNCHANGED panicked
                        /\ Deliver("dcHandleIncomingSignal", "LockedHint",
                                   lockedHintSignals, s.body)
              [] OTHER -> Ignored("dcHandleIncomingSignal")

\* handleIncomingSignal reading a missing LockedHint as the zero value false
\* and delivering it.
dcHandleIncomingSignal_NoKeyIsFalse(s) ==
    /\ facility = "lock" /\ ~panicked
    /\ UNCHANGED <<facility, lockVars, inhibitVars, idleVars>>
    /\ IF s.isNil THEN Ignored("dcHandleIncomingSignal")
       ELSE IF s.path # "session" THEN Ignored("dcHandleIncomingSignal")
       ELSE CASE s.name = "org.freedesktop.login1.Session.Lock" ->
                   /\ UNCHANGED panicked
                   /\ Deliver("dcHandleIncomingSignal", "Lock", lockSignals, "unit")
              [] s.name = "org.freedesktop.login1.Session.Unlock" ->
                   /\ UNCHANGED panicked
                   /\ Deliver("dcHandleIncomingSignal", "Unlock", unlockSignals, "unit")
              [] s.name = "org.freedesktop.DBus.Properties.PropertiesChanged" ->
                   IF s.body = "notmap" THEN Panics("dcHandleIncomingSignal", "LockedHint")
                   ELSE IF s.body = "nokey"
                        THEN /\ UNCHANGED panicked
                             /\ Deliver("dcHandleIncomingSignal", "LockedHint",
                                        lockedHintSignals, "false")
                   ELSE IF s.body = "notbool"
                        THEN Panics("dcHandleIncomingSignal", "LockedHint")
                   ELSE /\ UNCHANGED panicked
                        /\ Deliver("dcHandleIncomingSignal", "LockedHint",
                                   lockedHintSignals, s.body)
              [] OTHER -> Ignored("dcHandleIncomingSignal")

\* DbusSessionLock.handleIncomingSignal(s).
dcHandleIncomingSignal(s) ==
    /\ facility = "lock" /\ ~panicked
    /\ UNCHANGED <<facility, lockVars, inhibitVars, idleVars>>
    /\ IF s.isNil THEN Ignored("dcHandleIncomingSignal")
       ELSE IF s.path # "session" THEN Ignored("dcHandleIncomingSignal")
       ELSE CASE s.name = "org.freedesktop.login1.Session.Lock" ->
                   /\ UNCHANGED panicked
                   /\ Deliver("dcHandleIncomingSignal", "Lock", lockSignals, "unit")
              [] s.name = "org.freedesktop.login1.Session.Unlock" ->
                   /\ UNCHANGED panicked
                   /\ Deliver("dcHandleIncomingSignal", "Unlock", unlockSignals, "unit")
              [] s.name = "org.freedesktop.DBus.Properties.PropertiesChanged" ->
                   IF s.body = "notmap" THEN Panics("dcHandleIncomingSignal", "LockedHint")
                   ELSE IF s.body = "nokey" THEN Ignored("dcHandleIncomingSignal")
                   ELSE IF s.body = "notbool"
                        THEN Panics("dcHandleIncomingSignal", "LockedHint")
                   ELSE /\ UNCHANGED panicked
                        /\ Deliver("dcHandleIncomingSignal", "LockedHint",
                                   lockedHintSignals, s.body)
              [] OTHER -> Ignored("dcHandleIncomingSignal")

----------------------------------------------------------------------------
(* pkg/inhibit                                                             *)

\* SubscribePrepareForSleep with the channel stored before the match is
\* added (the order AddLockSignal uses).
SubscribePrepareForSleep_AddsFirst(c) ==
    /\ facility = "inhibit" /\ ~panicked
    /\ UNCHANGED <<facility, panicked, lockVars, chanVars, idleVars,
                   prepareForShutdownSubs, i_closeSignalHandler>>
    /\ IF c = Nil
       THEN /\ UNCHANGED prepareForSleepSubs
            /\ last' = Call("SubscribePrepareForSleep", "PrepareForSleep", c, "err",
                            {}, {})
       ELSE /\ prepareForSleepSubs' = prepareForSleepSubs \cup {c}
            /\ IF Cardinality(prepareForSleepSubs) = 0
               THEN \E ok \in BOOLEAN :
                    last' = Call("SubscribePrepareForSleep", "PrepareForSleep", c,
                                 IF ok THEN "ok" ELSE "err", Tx("PrepareForSleep", ok), {})
               ELSE last' = Call("SubscribePrepareForSleep", "PrepareForSleep", c, "ok",
                                 {}, {})

SubscribePrepareForSleep(c) ==
    /\ facility = "inhibit" /\ ~panicked
    /\ UNCHANGED <<facility, panicked, lockVars, chanVars, idleVars,
                   prepareForShutdownSubs, i_closeSignalHandler>>
    /\ IF c = Nil
       THEN /\ UNCHANGED prepareForSleepSubs
            /\ last' = Call("SubscribePrepareForSleep", "PrepareForSleep", c, "err",
                            {}, {})
       ELSE IF Cardinality(prepareForSleepSubs) = 0
       THEN \E ok \in BOOLEAN :
            /\ prepareForSleepSubs' = IF ok THEN prepareForSleepSubs \cup {c}
                                            ELSE prepareForSleepSubs
            /\ last' = Call("SubscribePrepareForSleep", "PrepareForSleep", c,
                            IF ok THEN "ok" ELSE "err", Tx("PrepareForSleep", ok), {})
       ELSE /\ prepareForSleepSubs' = prepareForSleepSubs \cup {c}
            /\ last' = Call("SubscribePrepareForSleep", "PrepareForSleep", c, "ok",
                            {}, {})

\* removePrepareForSleepSignal calls RemoveMatchSignal unconditionally.
removePrepareForSleepSignal(ok) == [ret |-> ok, issued |-> TRUE]

\* UnsubscribePrepareForSleep that puts the channel back when the
\* remove-match call fails.
UnsubscribePrepareForSleep_RollsBack(c) ==
    /\ facility = "inhibit" /\ ~panicked
    /\ UNCHANGED <<facility, panicked, lockVars, chanVars, idleVars,
                   prepareForShutdownSubs, i_closeSignalHandler>>
    /\ IF c = Nil
       THEN /\ UNCHANGED prepareForSleepSubs
            /\ last' = Call("UnsubscribePrepareForSleep", "PrepareForSleep", c, "err",
                            {}, {})
       ELSE IF prepareForSleepSubs \ {c} = {}
               THEN \E ok \in BOOLEAN :
                    LET r == removePrepareForSleepSignal(ok) IN
                    /\ prepareForSleepSubs' = (IF r.ret THEN {} ELSE prepareForSleepSubs)
                    /\ last' = Call("UnsubscribePrepareForSleep", "PrepareForSleep", c,
                                    IF r.ret THEN "ok" ELSE "err", {},
                                    IF r.issued THEN Tx("PrepareForSleep", ok) ELSE {})
               ELSE /\ prepareForSleepSubs' = prepareForSleepSubs \ {c}
                    /\ last' = Call("UnsubscribePrepareForSleep", "PrepareForSleep", c,
                                    "ok", {}, {})

UnsubscribePrepareForSleep(c) ==
    /\ facility = "inhibit" /\ ~panicked
    /\ UNCHANGED <<facility, panicked, lockVars, chanVars, idleVars,
                   prepareForShutdownSubs, i_closeSignalHandler>>
    /\ IF c = Nil
       THEN /\ UNCHANGED prepareForSleepSubs
            /\ last' = Call("UnsubscribePrepareForSleep", "PrepareForSleep", c, "err",
                            {}, {})
       ELSE /\ prepareForSleepSubs' = prepareForSleepSubs \ {c}
            /\ IF Cardinality(prepareForSleepSubs') = 0
               THEN \E ok \in BOOLEAN :
                    LET r == removePrepareForSleepSignal(ok) IN
                    last' = Call("UnsubscribePrepareForSleep", "PrepareForSleep", c,
                                 IF r.ret THEN "ok" ELSE "err", {},
                                 IF r.issued THEN Tx("PrepareForSleep", ok) ELSE {})
               ELSE last' = Call("UnsubscribePrepareForSleep", "PrepareForSleep", c,
                                 "ok", {}, {})

SubscribePrepareForShutdown(c) ==
    /\ facility = "inhibit" /\ ~panicked
    /\ UNCHANGED <<facility, panicked, lockVars, chanVars, idleVars,
                   prepareForSleepSubs, i_closeSignalHandler>>
    /\ IF c = Nil
       THEN /\ UNCHANGED prepareForShutdownSubs
            /\ last' = Call("SubscribePrepareForShutdown", "PrepareForShutdown", c,
                            "err", {}, {})
       ELSE IF Cardinality(prepareForShutdownSubs) = 0
       THEN \E ok \in BOOLEAN :
            /\ prepareForShutdownSubs' = IF ok THEN prepareForShutdownSubs \cup {c}
                                               ELSE prepareForShutdownSubs
            /\ last' = Call("SubscribePrepareForShutdown", "PrepareForShutdown", c,
                            IF ok THEN "ok" ELSE "err", Tx("PrepareForShutdown", ok), {})
       ELSE /\ prepareForShutdownSubs' = prepareForShutdownSubs \cup {c}
            /\ last' = Call("SubscribePrepareForShutdown", "PrepareForShutdown", c,
                            "ok", {}, {})

\* removePrepareForShutdownSignal calls RemoveMatchSignal unconditionally.
removePrepareForShutdownSignal(ok) == [ret |-> ok, issued |-> TRUE]

UnsubscribePrepareForShutdown(c) ==
    /\ facility = "inhibit" /\ ~panicked
    /\ UNCHANGED <<facility, panicked, lockVars, chanVars, idleVars,
                   prepareForSleepSubs, i_closeSignalHandler>>
    /\ IF c = Nil
       THEN /\ UNCHANGED prepareForShutdownSubs
            /\ last' = Call("UnsubscribePrepareForShutdown", "PrepareForShutdown", c,
                            "err", {}, {})
       ELSE /\ prepareForShutdownSubs' = prepareForShutdownSubs \ {c}
            /\ IF Cardinality(prepareForShutdownSubs') = 0
               THEN \E ok \in BOOLEAN :
                    LET r == removePrepareForShutdownSignal(ok) IN
                    last' = Call("UnsubscribePrepareForShutdown", "PrepareForShutdown",
                                 c, IF r.ret THEN "ok" ELSE "err", {},
                                 IF r.issued THEN Tx("PrepareForShutdown", ok) ELSE {})
               ELSE last' = Call("UnsubscribePrepareForShutdown", "PrepareForShutdown",
                                 c, "ok", {}, {})

\* Inhibitor.Close: both sets are cleared, both matches are removed (ok1 is
\* the transport's answer for PrepareForShutdown, ok2 for PrepareForSleep),
\* then closeSignalHandler is closed.
iClose ==
    /\ facility = "inhibit" /\ ~panicked
    /\ UNCHANGED <<facility, lockVars, chanVars, idleVars>>
    /\ \E ok1, ok2 \in BOOLEAN :
       LET r1 == removePrepareForShutdownSignal(ok1)
           r2 == removePrepareForSleepSignal(ok2)
           cl == CloseChan(i_closeSignalHandler)
       IN /\ prepareForSleepSubs' = {}
          /\ prepareForShutdownSubs' = {}
          /\ i_closeSignalHandler' = cl.state
          /\ panicked' = cl.panics
          /\ last' = Call("iClose", "all", Nil,
                          IF cl.panics THEN "panic" ELSE Join({r1.ret, r2.ret}),
                          {},
                          (IF r1.issued THEN Tx("PrepareForShutdown", ok1) ELSE {})
                            \cup (IF r2.issued THEN Tx("PrepareForSleep", ok2) ELSE {}))

\* Signals handed to the Inhibitor's reader goroutine: nil, or a signal with
\* a path (login1's or another), a name and Body[0]: a bool or not a bool.
InhibitBodies == {"notbool", "true", "false"}
InhibitSignalsIn ==
    {NilSignal, Signal("other", "org.freedesktop.login1.Manager.PrepareForSleep", "true"),
     Signal("login1", "other", "true")}
      \cup {Signal("login1", n, b) :
               n \in {"org.freedesktop.login1.Manager.PrepareForSleep",
                      "org.freedesktop.login1.Manager.PrepareForShutdown"},
               b \in InhibitBodies}

\* handleIncomingSignal without the comparison of s.Path with login1's path.
iHandleIncomingSignal_AnyPath(s) ==
    /\ facility = "inhibit" /\ ~panicked
    /\ UNCHANGED <<facility, lockVars, inhibitVars, idleVars>>
    /\ IF s.isNil THEN Ignored("iHandleIncomingSignal")
       ELSE CASE s.name = "org.freedesktop.login1.Manager.PrepareForSleep" ->
                   IF s.body = "notbool"
                   THEN Panics("iHandleIncomingSignal", "PrepareForSleep")
                   ELSE /\ UNCHANGED panicked
                        /\ Deliver("iHandleIncomingSignal", "PrepareForSleep",
                                   prepareForSleepSubs, s.body)
              [] s.name = "org.freedesktop.login1.Manager.PrepareForShutdown" ->
                   IF s.body = "notbool"
                   THEN Panics("iHandleIncomingSignal", "PrepareForShutdown")
                   ELSE /\ UNCHANGED panicked
                        /\ Deliver("iHandleIncomingSignal", "PrepareForShutdown",
                                   prepareForShutdownSubs, s.body)
              [] OTHER -> Ignored("iHandleIncomingSignal")

iHandleIncomingSignal(s) ==
    /\ facility = "inhibit" /\ ~panicked
    /\ UNCHANGED <<facility, lockVars, inhibitVars, idleVars>>
    /\ IF s.isNil THEN Ignored("iHandleIncomingSignal")
       ELSE IF s.path # "login1" THEN Ignored("iHandleIncomingSignal")
       ELSE CASE s.name = "org.freedesktop.login1.Manager.PrepareForSleep" ->
                   IF s.body = "notbool"
                   THEN Panics("iHandleIncomingSignal", "PrepareForSleep")
                   ELSE /\ UNCHANGED panicked
                        /\ Deliver("iHandleIncomingSignal", "PrepareForSleep",
                                   prepareForSleepSubs, s.body)
              [] s.name = "org.freedesktop.login1.Manager.PrepareForShutdown" ->
                   IF s.body = "notbool"
                   THEN Panics("iHandleIncomingSignal", "PrepareForShutdown")
                   ELSE /\ UNCHANGED panicked
                        /\ Deliver("iHandleIncomingSignal", "PrepareForShutdown",
                                   prepareForShutdownSubs, s.body)
              [] OTHER -> Ignored("iHandleIncomingSignal")

----------------------------------------------------------------------------
(* The subscribers' side of the channels (the consumer loops of the        *)
(* examples: select { case v := <-ch: ... }).                              *)

\* A consumer receives from c: it takes the head of the buffer, or, on an
\* unbuffered channel, blocks until a sender arrives.
Receive(c) ==
    /\ ~panicked
    /\ \/ facility = "lock" /\ c \in LockChans \cup UnlockChans \cup LockedChans
       \/ facility = "inhibit" /\ c \in BoolChans
    /\ UNCHANGED <<facility, panicked, lockVars, inhibitVars, idleVars>>
    /\ \/ /\ Len(buf[c]) > 0
          /\ buf' = [buf EXCEPT ![c] = Tail(@)]
          /\ UNCHANGED recvWaiting
       \/ /\ Cap(c) = 0 /\ c \notin recvWaiting
          /\ recvWaiting' = recvWaiting \cup {c}
          /\ UNCHANGED buf
    /\ last' = Call("Receive", "none", c, "ok", {}, {})

----------------------------------------------------------------------------
(* pkg/idle                                                                *)

\* waylandIdleController.Close, called by the holder of the controller the
\* constructor returned.  The seat, when the registry announced one, is
\* released, the display and the notifier are destroyed (ok1..ok3),
\* close(m.close) runs, and the connection is closed (ok4).  The steps run
\* and their results are recorded in `last`; the result is their errors.Join.
cClose ==
    /\ facility = "idle" /\ ~panicked /\ controller = "returned"
    /\ UNCHANGED <<facility, lockVars, inhibitVars, chanVars, senders, controller,
                   n_closed, pc, calls, helpers, destroyed, dropped>>
    /\ \E seat, ok1, ok2, ok3, ok4 \in BOOLEAN :
       LET cl == CloseChan(m_close)
           before == (IF seat THEN Tx("seat", ok1) ELSE {})
                        \cup Tx("display", ok2) \cup Tx("notifier", ok3)
           steps == IF cl.panics THEN before ELSE before \cup Tx("conn", ok4)
       IN
       /\ m_close' = cl.state
       /\ panicked' = cl.panics
       /\ last' = Call("cClose", "all", Nil,
                       IF cl.panics THEN "panic" ELSE Join({x.ok : x \in steps}),
                       {}, steps)

\* waylandIdleNotification.Close by goroutine g, first half: the read of
\* n.closed.  The field is read and written without synchronisation, so the
\* write of another goroutine may fall between this read and g's own write.
nCloseCheck(g) ==
    /\ facility = "idle" /\ ~panicked /\ controller = "returned"
    /\ pc[g] = "idle" /\ calls[g] < MaxCloseCalls
    /\ g = OwnerThread => owner.at = "callback"
    /\ calls' = [calls EXCEPT ![g] = @ + 1]
    /\ pc' = [pc EXCEPT ![g] = IF n_closed THEN "idle" ELSE "checked"]
    /\ last' = IF n_closed THEN Call("nClose", "return", g, "ok", {}, {})
                           ELSE Call("nClose", "check", g, "ok", {}, {})
    /\ UNCHANGED <<facility, panicked, lockVars, inhibitVars, chanVars, senders, controller,
                   m_close, n_closed, helpers, destroyed, dropped>>

\* Close calling n.notification.Destroy() itself, on the caller's goroutine.
nCloseSpawn_DestroysInline(g) ==
    /\ facility = "idle" /\ ~panicked
    /\ pc[g] = "checked"
    /\ n_closed' = TRUE
    /\ destroyed' = destroyed + 1
    /\ pc' = [pc EXCEPT ![g] = "idle"]
    /\ last' = Call("nClose", "spawn", g, "ok", {}, {})
    /\ UNCHANGED <<facility, panicked, lockVars, inhibitVars, chanVars, senders, controller,
                   m_close, calls, helpers, dropped>>

\* Close handing closeFunc to the owner itself instead of starting a
\* goroutine: the send  n.controller.dispatchChan <- closeFunc  completes
\* when the owner is in its select.
nCloseSpawn_Handoff(g) ==
    /\ facility = "idle" /\ ~panicked
    /\ pc[g] = "checked"
    /\ owner.at = "select"
    /\ n_closed' = TRUE
    /\ destroyed' = destroyed + 1
    /\ pc' = [pc EXCEPT ![g] = "idle"]
    /\ last' = Call("nClose", "spawn", g, "ok", {}, {})
    /\ UNCHANGED <<facility, panicked, lockVars, inhibitVars, chanVars, senders, controller,
                   m_close, calls, helpers, dropped>>

\* Second half: n.closed = true, the goroutine that will offer closeFunc to
\* the owner is started, and Close returns nil.
nCloseSpawn(g) ==
    /\ facility = "idle" /\ ~panicked
    /\ pc[g] = "checked"
    /\ n_closed' = TRUE
    /\ helpers' = helpers + 1
    /\ pc' = [pc EXCEPT ![g] = "idle"]
    /\ last' = Call("nClose", "spawn", g, "ok", {}, {})
    /\ UNCHANGED <<facility, panicked, lockVars, inhibitVars, chanVars, senders, controller,
                   m_close, calls, destroyed, dropped>>

\* The owner (the loop that receives from the dispatch channel and runs what
\* it receives) is in its select, takes a closeFunc from a waiting goroutine
\* and runs it: n.notification.Destroy().
ownerRunsCloseFunc ==
    /\ facility = "idle" /\ ~panicked
    /\ owner.at = "select"
    /\ helpers > 0
    /\ helpers' = helpers - 1
    /\ destroyed' = destroyed + 1
    /\ \E ok \in BOOLEAN :
         last' = Call("closeFunc", "Destroy", Nil, IF ok THEN "ok" ELSE "err", {}, {})
    /\ UNCHANGED <<facility, panicked, lockVars, inhibitVars, chanVars, senders, controller,
                   m_close, n_closed, pc, calls, dropped>>

\* A waiting goroutine of Close that runs closeFunc itself when it takes the
\* case <-n.controller.close.
helperSeesClose_RunsDestroy ==
    /\ facility = "idle" /\ ~panicked
    /\ helpers > 0 /\ m_close = "closed"
    /\ helpers' = helpers - 1
    /\ destroyed' = destroyed + 1
    /\ last' = Call("closeFunc", "dropped", Nil, "ok", {}, {})
    /\ UNCHANGED <<facility, panicked, lockVars, inhibitVars, chanVars, senders, controller,
                   m_close, n_closed, pc, calls, dropped>>

\* A waiting goroutine of Close takes the case <-n.controller.close.
helperSeesClose ==
    /\ facility = "idle" /\ ~panicked
    /\ helpers > 0 /\ m_close = "closed"
    /\ helpers' = helpers - 1
    /\ dropped' = dropped + 1
    /\ last' = Call("closeFunc", "dropped", Nil, "ok", {}, {})
    /\ UNCHANGED <<facility, panicked, lockVars, inhibitVars, chanVars, senders, controller,
                   m_close, n_closed, pc, calls, destroyed>>

\* The owner, in its select, takes the display's dispatch function from the
\* producer goroutine and starts running it; the event handlers it runs may
\* call Notification.Close.
ownerTakesDispatch ==
    /\ facility = "idle" /\ ~panicked /\ controller = "returned"
    /\ owner.at = "select" /\ owner.producer = "running"
    /\ owner' = [owner EXCEPT !.at = "callback"]
    /\ last' = Call("dispatchFunc", "taken", Nil, "ok", {}, {})
    /\ UNCHANGED <<facility, panicked, lockVars, inhibitVars, chanVars, idleVars,
                   callVars, concVars, order>>

\* The dispatch function returns (a Close called inside it has returned) and
\* the owner is back in its select.
ownerReturns ==
    /\ facility = "idle" /\ ~panicked
    /\ owner.at = "callback" /\ pc[OwnerThread] = "idle"
    /\ owner' = [owner EXCEPT !.at = "select"]
    /\ last' = Call("dispatchFunc", "returned", Nil, "ok", {}, {})
    /\ UNCHANGED <<facility, panicked, lockVars, inhibitVars, chanVars, idleVars,
                   callVars, concVars, order>>

\* The producer goroutine's select takes  case <-m.close  and returns.
producerSeesClose ==
    /\ facility = "idle" /\ ~panicked /\ controller = "returned"
    /\ owner.producer = "running" /\ m_close = "closed"
    /\ owner' = [owner EXCEPT !.producer = "returned"]
    /\ last' = Call("producer", "returned", Nil, "ok", {}, {})
    /\ UNCHANGED <<facility, panicked, lockVars, inhibitVars, chanVars, idleVars,
                   callVars, concVars, order>>

\* A handler that sends on the consumer's channel itself, on the owner:
\* the owner stays in the send until a consumer receives.
handlerRuns_SendsInline(h) ==
    /\ facility = "idle" /\ ~panicked /\ controller = "returned"
    /\ owner.at = "callback"
    /\ senders[h] < MaxSenders
    /\ senders' = [senders EXCEPT ![h] = @ + 1]
    /\ owner' = [owner EXCEPT !.at = "sending"]
    /\ last' = Call("handler", h, Nil, "ok", {}, {})
    /\ UNCHANGED <<facility, panicked, lockVars, inhibitVars, chanVars,
                   controller, m_close, n_closed, pc, calls, helpers, destroyed,
                   dropped, callVars, concVars, order>>

\* The dispatch function, running on the owner, calls the handler of an
\* idled or resumed event:  go func() { select { ... } }()  and the handler
\* returns.
handlerRuns(h) ==
    /\ facility = "idle" /\ ~panicked /\ controller = "returned"
    /\ owner.at = "callback"
    /\ senders[h] < MaxSenders
    /\ senders' = [senders EXCEPT ![h] = @ + 1]
    /\ last' = Call("handler", h, Nil, "ok", {}, {})
    /\ UNCHANGED <<facility, panicked, lockVars, inhibitVars, chanVars,
                   controller, m_close, n_closed, pc, calls, helpers, destroyed,
                   dropped, owner, callVars, concVars, order>>

\* A goroutine of a handler takes its send case: the consumer of the channel
\* handed to AddNotification receives struct{}{}.
senderDelivers(h) ==
    /\ facility = "idle" /\ ~panicked
    /\ senders[h] > 0
    /\ senders' = [senders EXCEPT ![h] = @ - 1]
    /\ last' = [Call("sender", h, Nil, "ok", {}, {}) EXCEPT !.val = "unit"]
    /\ UNCHANGED <<facility, panicked, lockVars, inhibitVars, chanVars,
                   controller, m_close, n_closed, pc, calls, helpers, destroyed,
                   dropped, owner, callVars, concVars, order>>

\* A goroutine of a handler takes the case <-m.close.
senderSeesClose(h) ==
    /\ facility = "idle" /\ ~panicked
    /\ senders[h] > 0 /\ m_close = "closed"
    /\ senders' = [senders EXCEPT ![h] = @ - 1]
    /\ last' = Call("sender", h, Nil, "closed", {}, {})
    /\ UNCHANGED <<facility, panicked, lockVars, inhibitVars, chanVars,
                   controller, m_close, n_closed, pc, calls, helpers, destroyed,
                   dropped, owner, callVars, concVars, order>>

----------------------------------------------------------------------------
(* pkg/idle: AddNotification                                               *)

\* A count of milliseconds is an int64.  It is written with 16-bit digits,
\* sign and magnitude: the value is hi * Word + lo, negated when neg, with
\* 0 <= lo < Word (math.MaxUint32 + 1 is hi = Word, lo = 0).
Word == 65536
Int64(neg, hi, lo) == [neg |-> neg /\ (hi # 0 \/ lo # 0), hi |-> hi, lo |-> lo]
\* math.MaxUint32
MaxUint32 == Int64(FALSE, Word - 1, Word - 1)
\* a > b on int64.
Greater(a, b) ==
    IF a.neg # b.neg THEN b.neg
    ELSE IF ~a.neg THEN a.hi > b.hi \/ (a.hi = b.hi /\ a.lo > b.lo)
    ELSE a.hi < b.hi \/ (a.hi = b.hi /\ a.lo < b.lo)
\* a < 0 on int64.
Negative(a) == a.neg
\* uint32(a): the low 32 bits of a's two's complement.
Uint32(a) ==
    LET h == a.hi % Word IN
    IF ~a.neg THEN [hi |-> h, lo |-> a.lo]
    ELSE IF a.lo # 0 THEN [hi |-> Word - 1 - h, lo |-> Word - a.lo]
    ELSE [hi |-> (Word - h) % Word, lo |-> 0]

\* A time.Duration: whole milliseconds (sign, hi, lo as above) and ns further
\* nanoseconds, 0 <= ns < 1000000.
Duration(neg, hi, lo, ns) == [neg |-> neg, hi |-> hi, lo |-> lo, ns |-> ns]
\* Duration.Milliseconds(): the nanoseconds divided by 1e6, truncated toward
\* zero.
Milliseconds(d) == Int64(d.neg, d.hi, d.lo)

\* The durations tried: -5s, -0.5ms, -1ms, 0, 5s, 5s + 999999ns, MaxUint32 ms,
\* MaxUint32 ms + 999999ns, (MaxUint32 + 1) ms, (2^32 + 5000) ms, and the
\* largest and the smallest Duration.
Durations ==
    {Duration(TRUE, 0, 5000, 0), Duration(TRUE, 0, 0, 500000), Duration(TRUE, 0, 1, 0),
     Duration(FALSE, 0, 0, 0), Duration(FALSE, 0, 5000, 0),
     Duration(FALSE, 0, 5000, 999999),
     Duration(FALSE, Word - 1, Word - 1, 0), Duration(FALSE, Word - 1, Word - 1, 999999),
     Duration(FALSE, Word, 0, 0), Duration(FALSE, Word, 5000, 0),
     Duration(FALSE, 140737488, 23286, 775807),
     Duration(TRUE, 140737488, 23286, 775808)}

\* The CreateIdleNotification values tried: a duration, and for Idle and
\* Resume a channel or nil.
NotificationInputs ==
    [Duration : Durations, Idle : {Nil, "idleCh"}, Resume : {Nil, "resumeCh"}]

\* What an AddNotification call returned and did: ret is "ok" (nil error) or
\* "err", handle whether a Notification was returned, passed the durations
\* given to GetIdleNotification, handlers the handlers set on the new
\* notification.
Returned(in, ret, handle, passed, handlers) ==
    [state |-> "returned", in |-> in, ret |-> ret, handle |-> handle,
     passed |-> passed, handlers |-> handlers]

\* AddNotification without the upper range check: the duration is converted
\* with uint32() whatever its size.
AddNotification_Truncates(notificationInput, ok) ==
    /\ facility = "idle" /\ ~panicked /\ controller = "returned"
    /\ addNotification.state = "pending" /\ addNotification.in = notificationInput
    /\ UNCHANGED <<objVars, owner, inhibitCall, newLock, concVars, order>>
    /\ addNotification' =
         IF notificationInput.Idle = Nil /\ notificationInput.Resume = Nil
         THEN Returned(notificationInput, "err", FALSE, {}, {})
         ELSE LET ms == Milliseconds(notificationInput.Duration)
                  durationMs == IF Negative(ms) THEN Int64(FALSE, 0, 0) ELSE ms
              IN IF ~ok
                 THEN Returned(notificationInput, "err", FALSE, {Uint32(durationMs)}, {})
                 ELSE Returned(notificationInput, "ok", TRUE, {Uint32(durationMs)},
                               (IF notificationInput.Idle # Nil THEN {"Idled"} ELSE {})
                                 \cup (IF notificationInput.Resume # Nil
                                       THEN {"Resumed"} ELSE {}))

\* AddNotification without the check that a channel was given.
AddNotification_NoTargetCheck(notificationInput, ok) ==
    /\ facility = "idle" /\ ~panicked /\ controller = "returned"
    /\ addNotification.state = "pending" /\ addNotification.in = notificationInput
    /\ UNCHANGED <<objVars, owner, inhibitCall, newLock, concVars, order>>
    /\ addNotification' =
         LET ms == Milliseconds(notificationInput.Duration) IN
         IF Greater(ms, MaxUint32)
         THEN Returned(notificationInput, "err", FALSE, {}, {})
         ELSE LET durationMs == IF Negative(ms) THEN Int64(FALSE, 0, 0) ELSE ms
              IN IF ~ok
                 THEN Returned(notificationInput, "err", FALSE, {Uint32(durationMs)}, {})
                 ELSE Returned(notificationInput, "ok", TRUE, {Uint32(durationMs)},
                               (IF notificationInput.Idle # Nil THEN {"Idled"} ELSE {})
                                 \cup (IF notificationInput.Resume # Nil
                                       THEN {"Resumed"} ELSE {}))

\* waylandIdleController.AddNotification; ok is whether GetIdleNotification
\* returned a nil error.
AddNotification(notificationInput, ok) ==
    /\ facility = "idle" /\ ~panicked /\ controller = "returned"
    /\ addNotification.state = "pending" /\ addNotification.in = notificationInput
    /\ UNCHANGED <<objVars, owner, inhibitCall, newLock, concVars, order>>
    /\ addNotification' =
         IF notificationInput.Idle = Nil /\ notificationInput.Resume = Nil
         THEN Returned(notificationInput, "err", FALSE, {}, {})
         ELSE LET ms == Milliseconds(notificationInput.Duration) IN
              IF Greater(ms, MaxUint32)
              THEN Returned(notificationInput, "err", FALSE, {}, {})
              ELSE LET durationMs == IF Negative(ms) THEN Int64(FALSE, 0, 0) ELSE ms
                   IN IF ~ok
                      THEN Returned(notificationInput, "err", FALSE,
                                    {Uint32(durationMs)}, {})
                      ELSE Returned(notificationInput, "ok", TRUE, {Uint32(durationMs)},
                                    (IF notificationInput.Idle # Nil
                                     THEN {"Idled"} ELSE {})
                                      \cup (IF notificationInput.Resume # Nil
                                            THEN {"Resumed"} ELSE {}))

----------------------------------------------------------------------------
(* pkg/inhibit: Inhibit and joinWhat                                       *)

\* A Go string is the sequence of its characters.
WhatIdle == <<"i", "d", "l", "e">>
WhatShutdown == <<"s", "h", "u", "t", "d", "o", "w", "n">>
WhatSleep == <<"s", "l", "e", "e", "p">>
\* The longest list of What values tried.
MaxWhat == 2
\* The what... arguments tried: every list of at most MaxWhat values.
WhatLists ==
    UNION {[1..n -> {WhatIdle, WhatShutdown, WhatSleep}] : n \in 0..MaxWhat}

\* const sep = ":"
sep == <<":">>

\* joinWhat's loop  for _, s := range elems[1:] { b.WriteString(sep);
\* b.WriteString(string(s)) }  on the builder's content b.
RECURSIVE WriteRest(_, _)
WriteRest(b, rest) ==
    IF rest = <<>> THEN b
    ELSE WriteRest(b \o sep \o Head(rest), Tail(rest))

\* joinWhat writing the separator before every element, the first included.
joinWhat_SepFirst(elems) ==
    IF Len(elems) = 0
    THEN [panics |-> TRUE, s |-> <<>>]
    ELSE [panics |-> FALSE, s |-> WriteRest(<<>>, elems)]

\* joinWhat: elems[0] of an empty list panics (index out of range).
joinWhat(elems) ==
    IF Len(elems) = 0
    THEN [panics |-> TRUE, s |-> <<>>]
    ELSE [panics |-> FALSE, s |-> WriteRest(elems[1], Tail(elems))]

\* Inhibitor.Inhibit(who, why, mode, what...): one call of login1's Inhibit
\* with joinWhat(what) as its first argument; ok is whether the call returned
\* a file descriptor.  wire holds the first argument of the call made.
Inhibit(what, ok) ==
    /\ facility = "inhibit" /\ ~panicked
    /\ inhibitCall.state = "pending" /\ inhibitCall.in = what
    /\ UNCHANGED <<facility, lockVars, inhibitVars, chanVars, idleVars, last,
                   owner, addNotification, newLock, concVars, order>>
    /\ LET j == joinWhat(what) IN
       /\ panicked' = j.panics
       /\ inhibitCall' =
            [state |-> "returned", in |-> what,
             ret |-> IF j.panics THEN "panic" ELSE IF ok THEN "ok" ELSE "err",
             closer |-> ~j.panics /\ ok,
             wire |-> IF j.panics THEN {} ELSE {j.s}]

----------------------------------------------------------------------------
(* pkg/lock: NewDbusSessionLock                                            *)

\* The object paths: login1's manager object, and the session objects.
ManagerPath == "/org/freedesktop/login1"
SessionPath(id) == <<"/org/freedesktop/login1/session", id>>

\* The elements of a ListSessions reply tried: not an array; an array whose
\* element 0 is not a string; an array with a session id and, as element 4,
\* an object path or something else.
SessionEntry(isArray, idIsString, id, pathIsObjectPath) ==
    [isArray |-> isArray, idIsString |-> idIsString, id |-> id,
     pathIsObjectPath |-> pathIsObjectPath]
SessionEntries ==
    {SessionEntry(FALSE, FALSE, "none", FALSE), SessionEntry(TRUE, FALSE, "none", FALSE)}
      \cup {SessionEntry(TRUE, TRUE, id, p) : id \in {"1", "3"}, p \in BOOLEAN}
\* The longest ListSessions reply tried.
MaxSessions == 2
\* The calls tried: a session id, whether the bus connection and the
\* ListSessions call succeed, and the reply.
NewLockInputs ==
    [sessionId : {"", "1", "2"}, connectOk : BOOLEAN, listOk : BOOLEAN,
     sessions : UNION {[1..n -> SessionEntries] : n \in 0..MaxSessions}]

\* The loop over the reply, from element i on, with obj the path
\* result.loginSessionObject is bound to so far: an error, or the path after
\* the loop.
RECURSIVE ScanSessions(_, _, _, _)
ScanSessions(sessions, i, sessionId, obj) ==
    IF i > Len(sessions) THEN [err |-> FALSE, obj |-> obj]
    ELSE LET session == sessions[i] IN
         IF ~session.isArray THEN [err |-> TRUE, obj |-> obj]
         ELSE IF ~session.idIsString THEN [err |-> TRUE, obj |-> obj]
         ELSE IF session.id = sessionId
              THEN IF ~session.pathIsObjectPath
                   THEN [err |-> TRUE, obj |-> obj]
                   ELSE [err |-> FALSE, obj |-> SessionPath(session.id)]
              ELSE ScanSessions(sessions, i + 1, sessionId, obj)

\* What NewDbusSessionLock returned: ret "ok" | "err", whether a Lock was
\* returned, and the path its loginSessionObject is bound to.
NewLockReturned(in, ret, lock, obj) ==
    [state |-> "returned", in |-> in, ret |-> ret, lock |-> lock, obj |-> obj]

\* NewDbusSessionLock.  result.loginSessionObject is first bound to the
\* manager object and rebound when the session is found; nil is written
\* <<"nil">>.
NewDbusSessionLock(in) ==
    /\ facility = "none"
    /\ newLock.state = "pending" /\ newLock.in = in
    /\ UNCHANGED <<objVars, owner, addNotification, inhibitCall, concVars, order>>
    /\ newLock' =
         IF in.sessionId = "" THEN NewLockReturned(in, "err", FALSE, <<"nil">>)
         ELSE IF ~in.connectOk THEN NewLockReturned(in, "err", FALSE, <<"nil">>)
         ELSE IF ~in.listOk THEN NewLockReturned(in, "err", FALSE, <<"nil">>)
         ELSE LET r == ScanSessions(in.sessions, 1, in.sessionId, <<ManagerPath>>) IN
              IF r.err THEN NewLockReturned(in, "err", FALSE, <<"nil">>)
              ELSE IF r.obj = <<"nil">> THEN NewLockReturned(in, "err", FALSE, <<"nil">>)
              ELSE NewLockReturned(in, "ok", TRUE, r.obj)

\* One call of AddNotification, of Inhibit or of NewDbusSessionLock, from its
\* arguments to its return.
CallInit ==
    /\ Fresh
    /\ controller = "returned" /\ m_close = "open"
    /\ \/ /\ facility = "idle"
          /\ addNotification \in [state : {"pending"}, in : NotificationInputs]
          /\ inhibitCall = Unused /\ newLock = Unused
       \/ /\ facility = "inhibit"
          /\ inhibitCall \in [state : {"pending"}, in : WhatLists]
          /\ addNotification = Unused /\ newLock = Unused
       \/ /\ facility = "none"
          /\ newLock \in [state : {"pending"}, in : NewLockInputs]
          /\ addNotification = Unused /\ inhibitCall = Unused

CallNext ==
    \/ \E ok \in BOOLEAN : AddNotification(addNotification.in, ok)
    \/ \E ok \in BOOLEAN : Inhibit(inhibitCall.in, ok)
    \/ NewDbusSessionLock(newLock.in)

CallSpec == CallInit /\ [][CallNext]_vars

----------------------------------------------------------------------------
\* A call that runs from its first statement to its return with no other
\* goroutine of the facility in between (the methods hold muSignals from
\* start to end), seen from outside: the mutex is free before and after.
Whole(A) ==
    /\ A
    /\ UNCHANGED <<owner, callVars, concVars, order>>

LockNext ==
    \/ \E c \in LockChans \cup {Nil} : Whole(AddLockSignal(c))
    \/ \E c \in LockChans \cup {Nil} : Whole(RemoveLockSignal(c))
    \/ \E c \in UnlockChans \cup {Nil} : Whole(AddUnlockSignal(c))
    \/ \E c \in UnlockChans \cup {Nil} : Whole(RemoveUnlockSignal(c))
    \/ \E c \in LockedChans \cup {Nil} : Whole(AddLockedSignal(c))
    \/ \E c \in LockedChans \cup {Nil} : Whole(RemoveLockedSignal(c))
    \/ Whole(dcClose)
    \/ \E s \in LockSignalsIn : Whole(dcHandleIncomingSignal(s))

InhibitNext ==
    \/ \E c \in BoolChans \cup {Nil} : Whole(SubscribePrepareForSleep(c))
    \/ \E c \in BoolChans \cup {Nil} : Whole(UnsubscribePrepareForSleep(c))
    \/ \E c \in BoolChans \cup {Nil} : Whole(SubscribePrepareForShutdown(c))
    \/ \E c \in BoolChans \cup {Nil} : Whole(UnsubscribePrepareForShutdown(c))
    \/ Whole(iClose)
    \/ \E s \in InhibitSignalsIn : Whole(iHandleIncomingSignal(s))

IdleNext ==
    \/ Whole(cClose)
    \/ \E g \in Closers : Whole(nCloseCheck(g))
    \/ \E g \in Closers : Whole(nCloseSpawn(g))
    \/ Whole(ownerRunsCloseFunc)
    \/ Whole(helperSeesClose)
    \/ ownerTakesDispatch
    \/ ownerReturns
    \/ producerSeesClose
    \/ \E h \in HandlerKinds : handlerRuns(h)
    \/ \E h \in HandlerKinds : senderDelivers(h)
    \/ \E h \in HandlerKinds : senderSeesClose(h)

Next ==
    \/ LockNext
    \/ InhibitNext
    \/ IdleNext
    \/ \E c \in Chans : Whole(Receive(c))

Spec == Init /\ [][Next]_vars

----------------------------------------------------------------------------
(* The idle controller on its own, with the scheduling its goroutines can   *)
(* count on: a goroutine whose select has a case that stays ready (the      *)
(* receive from the closed channel m.close) is eventually run.              *)

IdleInit ==
    /\ Init
    /\ facility = "idle"

IdleFairSpec ==
    /\ IdleInit
    /\ [][IdleNext]_vars
    /\ WF_vars(Whole(helperSeesClose))
    /\ \A h \in HandlerKinds : WF_vars(senderSeesClose(h))

----------------------------------------------------------------------------
(* The goroutines of a session-lock or inhibition facility: callers of the  *)
(* methods, and the reader goroutine the constructor starts.  Every method  *)
(* begins  muSignals.Lock(); defer muSignals.Unlock()  (handleIncomingSignal *)
(* after its nil and path checks), so a call is three steps: the mutex is   *)
(* taken, the body runs, the deferred Unlock runs.                          *)

\* How often the reader's select takes the case <-closeSignalHandler.
MaxSpins == 2

\* sync.Mutex.Lock that returns at once, whoever holds the mutex.
muLock_NoWait(g) ==
    muSignals' = g

\* sync.Mutex.Lock by goroutine g: it returns when the mutex is free, and g
\* holds it.
muLock(g) ==
    /\ muSignals = "free"
    /\ muSignals' = g

\* sync.Mutex.Unlock.
muUnlock(g) ==
    muSignals' = "free"

\* A caller passes the nil check of a method and takes the mutex.
callerLocks(g) ==
    /\ facility \in {"lock", "inhibit"} /\ ~panicked
    /\ gpc[g] = "idle"
    /\ muLock(g)
    /\ gpc' = [gpc EXCEPT ![g] = "locked"]
    /\ UNCHANGED <<objVars, owner, callVars, matchRules, reader>>

\* The transport answered every AddMatchSignal and RemoveMatchSignal of the
\* call with nil; the match rules on the bus follow the calls.
TransportOk ==
    /\ Failed(last'.addIssued) = {}
    /\ Failed(last'.rmIssued) = {}
    /\ matchRules' = (matchRules \cup Kinds(last'.addIssued)) \ Kinds(last'.rmIssued)

\* The body A of the method goroutine g is in.
Body(g, A) ==
    /\ gpc[g] = "locked"
    /\ A
    /\ TransportOk
    /\ gpc' = [gpc EXCEPT ![g] = "ran"]
    /\ UNCHANGED <<owner, callVars, muSignals, reader>>

\* The bodies a caller runs.  Close is called while closeSignalHandler is
\* open (the facility is discarded after Close).
callerRuns(g) ==
    \/ \E c \in LockChans : Body(g, AddLockSignal(c))
    \/ \E c \in LockChans : Body(g, RemoveLockSignal(c))
    \/ \E c \in UnlockChans : Body(g, AddUnlockSignal(c))
    \/ \E c \in UnlockChans : Body(g, RemoveUnlockSignal(c))
    \/ \E c \in LockedChans : Body(g, AddLockedSignal(c))
    \/ \E c \in LockedChans : Body(g, RemoveLockedSignal(c))
    \/ dc_closeSignalHandler = "open" /\ Body(g, dcClose)
    \/ \E c \in BoolChans : Body(g, SubscribePrepareForSleep(c))
    \/ \E c \in BoolChans : Body(g, UnsubscribePrepareForSleep(c))
    \/ \E c \in BoolChans : Body(g, SubscribePrepareForShutdown(c))
    \/ \E c \in BoolChans : Body(g, UnsubscribePrepareForShutdown(c))

\* The deferred Unlock runs and the method returns; the reader's v goes out
\* of scope with the iteration of its loop.
unlocks(g) ==
    /\ facility \in {"lock", "inhibit"} /\ ~panicked
    /\ gpc[g] = "ran"
    /\ muUnlock(g)
    /\ gpc' = [gpc EXCEPT ![g] = "idle"]
    /\ reader' = [reader EXCEPT !.v = NilSignal]
    /\ UNCHANGED <<objVars, owner, callVars, matchRules>>

\* The signals the bus hands to the reader while the service keeps its
\* contract: nil, signals of other objects and other names, and well-formed
\* signals of the facility's kinds.
WellFormed(s) == s.body \notin {"notmap", "notbool"}
SignalsIn ==
    IF facility = "lock" THEN {s \in LockSignalsIn : WellFormed(s)}
    ELSE {s \in InhibitSignalsIn : WellFormed(s)}

\* handleIncomingSignal returns before taking the mutex.
ReturnsEarly(s) ==
    \/ s.isNil
    \/ s.path # (IF facility = "lock" THEN "session" ELSE "login1")

\* The reader's select takes  case v := <-c : a signal arrives while c is
\* registered with the connection.
readerReceives(s) ==
    /\ facility \in {"lock", "inhibit"} /\ ~panicked
    /\ gpc["reader"] = "idle"
    /\ reader.registered
    /\ reader' = [reader EXCEPT !.v = s]
    /\ gpc' = [gpc EXCEPT !["reader"] = "received"]
    /\ UNCHANGED <<objVars, owner, callVars, muSignals, matchRules>>

\* handleIncomingSignal(v) on a nil signal or a signal of another object.
readerReturnsEarly ==
    /\ gpc["reader"] = "received"
    /\ ReturnsEarly(reader.v)
    /\ \/ dcHandleIncomingSignal(reader.v)
       \/ iHandleIncomingSignal(reader.v)
    /\ gpc' = [gpc EXCEPT !["reader"] = "idle"]
    /\ reader' = [reader EXCEPT !.v = NilSignal]
    /\ UNCHANGED <<owner, callVars, muSignals, matchRules>>

\* handleIncomingSignal(v) takes the mutex.
readerLocks ==
    /\ facility \in {"lock", "inhibit"} /\ ~panicked
    /\ gpc["reader"] = "received"
    /\ ~ReturnsEarly(reader.v)
    /\ muLock("reader")
    /\ gpc' = [gpc EXCEPT !["reader"] = "locked"]
    /\ UNCHANGED <<objVars, owner, callVars, matchRules, reader>>

\* handleIncomingSignal(v) under the mutex: the switch and the fan-out.
readerRuns ==
    \/ Body("reader", dcHandleIncomingSignal(reader.v))
    \/ Body("reader", iHandleIncomingSignal(reader.v))

\* The reader's select takes  case <-closeSignalHandler : conn.RemoveSignal(c)
\* runs and the for loop goes round again.
readerSeesClose ==
    /\ facility = "lock" /\ ~panicked
    /\ gpc["reader"] = "idle"
    /\ dc_closeSignalHandler = "closed"
    /\ reader.closeSeen < MaxSpins
    /\ reader' = [reader EXCEPT !.registered = FALSE, !.closeSeen = @ + 1]
    /\ UNCHANGED <<objVars, owner, callVars, muSignals, gpc, matchRules>>

\* A consumer of a subscriber channel.
consumerReceives(c) ==
    /\ facility \in {"lock", "inhibit"}
    /\ Receive(c)
    /\ UNCHANGED <<owner, callVars, concVars, order>>

ConcInit ==
    /\ facility \in {"lock", "inhibit"}
    /\ Fresh
    /\ controller = "returned" /\ m_close = "open"
    /\ addNotification = Unused
    /\ inhibitCall = Unused
    /\ newLock = Unused

\* A step of the facility's goroutines, the record of the order of events
\* left alone.
Quiet(A) ==
    /\ A
    /\ UNCHANGED order

ConcNext ==
    \/ \E g \in Callers : Quiet(callerLocks(g))
    \/ \E g \in Callers : Quiet(callerRuns(g))
    \/ \E g \in Goroutines : Quiet(unlocks(g))
    \/ \E s \in SignalsIn : Quiet(readerReceives(s))
    \/ Quiet(readerReturnsEarly)
    \/ Quiet(readerLocks)
    \/ Quiet(readerRuns)
    \/ Quiet(readerSeesClose)
    \/ \E c \in Chans : consumerReceives(c)

ConcSpec == ConcInit /\ [][ConcNext]_vars

\* The signals of the facility's kinds whose body does not have the shape
\* handleIncomingSignal asserts.
MalformedIn ==
    IF facility = "lock" THEN {s \in LockSignalsIn : ~WellFormed(s)}
    ELSE {s \in InhibitSignalsIn : ~WellFormed(s)}

\* The goroutines of a facility whose service may also send malformed
\* signals.
ReaderNext ==
    \/ ConcNext
    \/ \E s \in MalformedIn : Quiet(readerReceives(s))

ReaderSpec == ConcInit /\ [][ReaderNext]_vars

----------------------------------------------------------------------------
(* The order of the events of one kind, PrepareForSleep of the inhibition   *)
(* facility: callers subscribe and unsubscribe bool channels, the reader    *)
(* gets the kind's signals one after the other, consumers receive.          *)

\* The PrepareForSleep signals the reader gets while `order` is kept.
MaxDispatched == 3

OrderKind == "PrepareForSleep"
OrderSignals ==
    {NilSignal} \cup
    {Signal("login1", "org.freedesktop.login1.Manager.PrepareForSleep", b) :
        b \in {"true", "false"}}

\* The reader took a signal of the kind from its channel c in this step.
Arrives ==
    /\ gpc["reader"] = "idle" /\ gpc'["reader"] = "received"
    /\ ~reader'.v.isNil

\* A step of the facility's goroutines with the record of the order kept: a
\* signal the reader takes is appended to `dispatched`, a value a send hands
\* to a consumer blocked in its receive is appended to what that consumer
\* has received.
Track(A) ==
    /\ A
    /\ order' = [dispatched |-> IF Arrives THEN Append(order.dispatched, reader'.v.body)
                                ELSE order.dispatched,
                 received |-> [c \in Chans |->
                                  IF c \in recvWaiting /\ c \notin recvWaiting'
                                  THEN Append(order.received[c], last'.val)
                                  ELSE order.received[c]]]
    /\ Len(order'.dispatched) <= MaxDispatched

\* A consumer's receive from c: the head of the buffer is the next value it
\* has received; on an empty unbuffered channel it blocks.
consumerTakes(c) ==
    /\ Receive(c)
    /\ order' = [order EXCEPT !.received[c] =
                    IF Len(buf[c]) > 0 THEN Append(@, Head(buf[c])) ELSE @]
    /\ UNCHANGED <<owner, callVars, concVars>>

OrderInit ==
    /\ ConcInit
    /\ facility = "inhibit"

OrderNext ==
    \/ \E g \in Callers : Track(callerLocks(g))
    \/ \E g \in Callers, c \in BoolChans : Track(Body(g, SubscribePrepareForSleep(c)))
    \/ \E g \in Callers, c \in BoolChans : Track(Body(g, UnsubscribePrepareForSleep(c)))
    \/ \E g \in Goroutines : Track(unlocks(g))
    \/ \E s \in OrderSignals : Track(readerReceives(s))
    \/ Track(readerReturnsEarly)
    \/ Track(readerLocks)
    \/ Track(readerRuns)
    \/ \E c \in BoolChans : consumerTakes(c)

OrderSpec == OrderInit /\ [][OrderNext]_vars

----------------------------------------------------------------------------
(* Views of the state used by the properties                               *)

LockKinds == {"Lock", "Unlock", "LockedHint"}
InhibitKinds == {"PrepareForSleep", "PrepareForShutdown"}

\* The subscriber set of a signal kind.
Subs(k) ==
    CASE k = "Lock" -> lockSignals
      [] k = "Unlock" -> unlockSignals
      [] k = "LockedHint" -> lockedHintSignals
      [] k = "PrepareForSleep" -> prepareForSleepSubs
      [] k = "PrepareForShutdown" -> prepareForShutdownSubs
      [] OTHER -> {}

\* The activation flag of a signal kind of the dbusCon (the Inhibitor has none).
Active(k) ==
    CASE k = "Lock" -> lockSignalActive
      [] k = "Unlock" -> unlockSignalActive
      [] k = "LockedHint" -> propertiesChangedActive
      [] OTHER -> FALSE

LockAddOps == {"AddLockSignal", "AddUnlockSignal", "AddLockedSignal"}
LockRemoveOps == {"RemoveLockSignal", "RemoveUnlockSignal", "RemoveLockedSignal"}
InhibitSubscribeOps == {"SubscribePrepareForSleep", "SubscribePrepareForShutdown"}
InhibitUnsubscribeOps == {"UnsubscribePrepareForSleep", "UnsubscribePrepareForShutdown"}
DispatchOps == {"dcHandleIncomingSignal", "iHandleIncomingSignal"}

\* The select's send case of a fan-out to c is ready.
HasRoom(c) == c \in recvWaiting \/ Len(buf[c]) < Cap(c)

----------------------------------------------------------------------------
(* Properties                                                              *)

\* C1: in the session-lock facility, whatever Add*Signal / Remove*Signal
\* calls were made and whatever the transport answered, each kind's
\* activation flag is true iff the kind's subscriber set is non-empty.
C1_ActiveIffNonEmpty ==
    facility = "lock" =>
        \A k \in LockKinds : Active(k) <=> (Subs(k) # {})

\* C2: an Add*Signal call of the session-lock facility with a non-nil
\* channel, made while the kind is inactive and answered with an error by
\* AddMatchSignal, returns an error and changes nothing: the channel is not
\* in the subscriber set afterwards and the flag is as before.
C2_FailedAddChangesNothing ==
    [][\A k \in LockKinds :
         (/\ last'.op \in LockAddOps
          /\ last'.kind = k
          /\ last'.ch # Nil
          /\ ~Active(k)
          /\ Failed(last'.addIssued) # {})
         => (/\ last'.ret = "err"
             /\ Subs(k)' = Subs(k)
             /\ last'.ch \notin Subs(k)'
             /\ Active(k)' = Active(k))]_vars

\* C3: in the inhibition facility a Subscribe call with a non-nil channel on
\* an empty subscriber set issues AddMatchSignal; when that call fails the
\* Subscribe returns an error and the set is still empty, so that the next
\* Subscribe on the kind issues AddMatchSignal again.
C3_InhibitFailedSubscribe ==
    [][\A k \in InhibitKinds :
         (/\ last'.op \in InhibitSubscribeOps
          /\ last'.kind = k
          /\ last'.ch # Nil
          /\ Subs(k) = {})
         => (/\ Kinds(last'.addIssued) = {k}
             /\ (Failed(last'.addIssued) # {}
                   => last'.ret = "err" /\ Subs(k)' = {}))]_vars

\* C3 witness: a Subscribe whose AddMatchSignal failed has just returned.
C3_Witness ==
    /\ last.op = "SubscribePrepareForSleep"
    /\ last.ch # Nil
    /\ Failed(last.addIssued) = {"PrepareForSleep"}
    /\ last.ret = "err"
    /\ prepareForSleepSubs = {}

\* C4: subscribing a channel that is already in the kind's subscriber set
\* returns nil, issues no AddMatchSignal and leaves the set as it was; and a
\* dispatch sends to any channel at most once.
C4_ResubscribeIsNoOp ==
    [][/\ \A k \in LockKinds \cup InhibitKinds :
            (/\ last'.op \in LockAddOps \cup InhibitSubscribeOps
             /\ last'.kind = k
             /\ last'.ch # Nil
             /\ last'.ch \in Subs(k))
            => (/\ last'.ret = "ok"
                /\ last'.addIssued = {}
                /\ Subs(k)' = Subs(k))
       /\ last'.op \in DispatchOps
            => \A c \in Chans : /\ last'.attempts[c] <= 1
                                /\ Len(buf'[c]) <= Len(buf[c]) + 1]_vars

\* C5: unsubscribing a non-nil channel that is not in the kind's subscriber
\* set returns nil, whatever the state, and leaves the set and the kind's
\* activation as they were.
C5_UnsubscribeUnknownIsNoOp ==
    [][\A k \in LockKinds \cup InhibitKinds :
         (/\ last'.op \in LockRemoveOps \cup InhibitUnsubscribeOps
          /\ last'.kind = k
          /\ last'.ch # Nil
          /\ last'.ch \notin Subs(k))
         => (/\ last'.ret = "ok"
             /\ Subs(k)' = Subs(k)
             /\ Active(k)' = Active(k))]_vars

\* C6: a dispatch of a matching event does not block; it attempts exactly
\* one send per subscriber of the kind and none to anyone else; a subscriber
\* whose channel is ready takes the value exactly once (a blocked consumer is
\* released, or the value is appended to the buffer); a subscriber whose
\* channel is not ready keeps its channel as it was; every other channel is
\* untouched.
C6_DispatchNonBlocking ==
    [][\A k \in LockKinds \cup InhibitKinds :
         (last'.op \in DispatchOps /\ last'.kind = k /\ last'.val # "none")
         => (/\ ~last'.blocked
             /\ \A c \in Chans :
                  last'.attempts[c] = (IF c \in Subs(k) THEN 1 ELSE 0)
             /\ \A c \in Subs(k) :
                  IF HasRoom(c)
                  THEN /\ c \in last'.delivered
                       /\ IF c \in recvWaiting
                          THEN c \notin recvWaiting' /\ buf'[c] = buf[c]
                          ELSE /\ buf'[c] = Append(buf[c], last'.val)
                               /\ c \notin recvWaiting'
                  ELSE /\ c \notin last'.delivered
                       /\ buf'[c] = buf[c]
                       /\ c \notin recvWaiting'
             /\ \A c \in Chans \ Subs(k) :
                  /\ buf'[c] = buf[c]
                  /\ (c \in recvWaiting') = (c \in recvWaiting)
                  /\ c \notin last'.delivered)]_vars

\* C6 witness: a dispatch has just reached one subscriber and dropped the
\* event for another subscriber of the same kind.
C6_Witness ==
    /\ last.op \in DispatchOps
    /\ last.val # "none"
    /\ \E c1, c2 \in Subs(last.kind) :
         c1 \in last.delivered /\ c2 \notin last.delivered

\* C7: dbusCon.Close never panics, also when it was called before.
C7_LockCloseNeverPanics ==
    last.op = "dcClose" => last.ret # "panic"

\* C8: Inhibitor.Close on an Inhibitor returned by New does not panic and
\* returns the joined result of its RemoveMatchSignal calls: nil iff none of
\* them failed.
C8_InhibitorCloseReturnsJoin ==
    last.op = "iClose" =>
        last.ret = (IF Failed(last.rmIssued) = {} THEN "ok" ELSE "err")

\* C9: waylandIdleController.Close never panics, however often it is called.
C9_ControllerCloseNeverPanics ==
    last.op = "cClose" => last.ret # "panic"

\* C10: whatever Close calls are made on a notification, by one goroutine or
\* by several at once, at most one destroy request exists and Destroy runs
\* at most once.
C10_DestroyAtMostOnce ==
    /\ helpers + destroyed + dropped <= 1
    /\ destroyed <= 1

\* C11: AddNotification (with a channel given) passes 0 to
\* GetIdleNotification for a negative duration, passes the millisecond count
\* unchanged when it lies in [0, MaxUint32] (5000 for 5s), and for a larger
\* count returns an error, no handle, and makes no GetIdleNotification call.
C11_DurationClamped ==
    (/\ addNotification.state = "returned"
     /\ (addNotification.in.Idle # Nil \/ addNotification.in.Resume # Nil))
    => LET d == addNotification.in.Duration
           wholeMs == d.hi # 0 \/ d.lo # 0
       IN /\ (d.neg \/ ~wholeMs) => addNotification.passed = {[hi |-> 0, lo |-> 0]}
          /\ (~d.neg /\ d.hi < Word)
                => addNotification.passed = {[hi |-> d.hi, lo |-> d.lo]}
          /\ (~d.neg /\ d.hi >= Word)
                => /\ addNotification.ret = "err"
                   /\ ~addNotification.handle
                   /\ addNotification.passed = {}
          /\ d = Duration(FALSE, 0, 5000, 0)
                => addNotification.passed = {[hi |-> 0, lo |-> 5000]}
          /\ d = Duration(TRUE, 0, 5000, 0)
                => addNotification.passed = {[hi |-> 0, lo |-> 0]}

\* C11 witness: a call for (2^32 + 5000) ms was rejected without a
\* GetIdleNotification call.
C11_Witness ==
    /\ addNotification.state = "returned"
    /\ addNotification.in.Idle # Nil
    /\ addNotification.in.Duration = Duration(FALSE, Word, 5000, 0)
    /\ addNotification.ret = "err"
    /\ addNotification.passed = {}

\* C12: AddNotification with neither an Idle nor a Resume channel returns an
\* error and no handle, makes no GetIdleNotification call, sets no handler,
\* and leaves the controller and its notifications as they were.
C12_NoTargetIsUsageError ==
    [][(/\ addNotification'.state = "returned"
        /\ addNotification.state = "pending"
        /\ addNotification'.in.Idle = Nil
        /\ addNotification'.in.Resume = Nil)
       => (/\ addNotification'.ret = "err"
           /\ ~addNotification'.handle
           /\ addNotification'.passed = {}
           /\ addNotification'.handlers = {}
           /\ UNCHANGED <<objVars, owner>>)]_vars

\* C12 witness: such a call has returned its error.
C12_Witness ==
    /\ addNotification.state = "returned"
    /\ addNotification.in.Idle = Nil /\ addNotification.in.Resume = Nil
    /\ addNotification.ret = "err"
    /\ ~addNotification.handle

\* The fields of a string: the parts between its ":" characters.
RECURSIVE FieldsFrom(_, _, _)
FieldsFrom(s, field, done) ==
    IF s = <<>> THEN Append(done, field)
    ELSE IF Head(s) = ":" THEN FieldsFrom(Tail(s), <<>>, Append(done, field))
    ELSE FieldsFrom(Tail(s), Append(field, Head(s)), done)
Fields(s) == FieldsFrom(s, <<>>, <<>>)

\* C13: for a non-empty list of What values Inhibit does not panic and the
\* first argument of its call is the values in their order separated by ":":
\* its fields are the list, it neither starts nor ends with ":",
\* [WhatSleep] gives "sleep" and [WhatSleep, WhatIdle] gives "sleep:idle".
C13_JoinWhatWire ==
    (inhibitCall.state = "returned" /\ Len(inhibitCall.in) > 0)
    => /\ inhibitCall.ret # "panic"
       /\ \E w \in inhibitCall.wire :
            /\ inhibitCall.wire = {w}
            /\ Len(w) > 0
            /\ Fields(w) = inhibitCall.in
            /\ w[1] # ":" /\ w[Len(w)] # ":"
            /\ inhibitCall.in = <<WhatSleep>> => w = <<"s", "l", "e", "e", "p">>
            /\ inhibitCall.in = <<WhatSleep, WhatIdle>>
                 => w = <<"s", "l", "e", "e", "p", ":", "i", "d", "l", "e">>

\* C13 witness: Inhibit was called with [WhatSleep, WhatIdle] and made its call.
C13_Witness ==
    /\ inhibitCall.state = "returned"
    /\ inhibitCall.in = <<WhatSleep, WhatIdle>>
    /\ inhibitCall.wire # {}

\* C16: when the connection and the ListSessions call succeed, every element
\* of the reply is well formed, and none carries the given non-empty session
\* id, NewDbusSessionLock returns an error and no Lock.
C16_UnknownSessionIsError ==
    (/\ newLock.state = "returned"
     /\ newLock.in.sessionId # ""
     /\ newLock.in.connectOk /\ newLock.in.listOk
     /\ \A i \in 1..Len(newLock.in.sessions) :
          LET session == newLock.in.sessions[i] IN
          /\ session.isArray /\ session.idIsString /\ session.pathIsObjectPath
          /\ session.id # newLock.in.sessionId)
    => (newLock.ret = "err" /\ ~newLock.lock)

\* The reader runs the body of handleIncomingSignal on the signal it holds.
ReaderHandles(name) ==
    /\ facility = "lock"
    /\ gpc["reader"] = "locked" /\ gpc'["reader"] = "ran"
    /\ reader.v.name = name

\* C14: when the reader handles a PropertiesChanged signal of the session
\* whose map carries LockedHint = b, every channel of lockedHintSignals that
\* has room (a free buffer slot or a consumer blocked receiving) is tried
\* once and gets the value b once, and no other channel changes; when the map
\* has no LockedHint, no channel gets anything.
C14_LockedHintDelivered ==
    [][ReaderHandles("org.freedesktop.DBus.Properties.PropertiesChanged") =>
        IF reader.v.body \in {"true", "false"}
        THEN /\ last'.val = reader.v.body
             /\ \A c \in lockedHintSignals :
                    /\ last'.attempts[c] = 1
                    /\ HasRoom(c) =>
                          /\ c \in last'.delivered
                          /\ IF c \in recvWaiting
                             THEN c \notin recvWaiting' /\ buf'[c] = buf[c]
                             ELSE buf'[c] = Append(buf[c], reader.v.body)
             /\ \A c \in Chans \ lockedHintSignals :
                    /\ buf'[c] = buf[c]
                    /\ (c \in recvWaiting') = (c \in recvWaiting)
        ELSE /\ reader.v.body = "nokey"
             /\ buf' = buf /\ recvWaiting' = recvWaiting
             /\ last'.delivered = {}]_vars

\* The reader handled LockedHint = true with b2 subscribed and empty: b2
\* holds the one value true.
C14_Witness ==
    /\ facility = "lock" /\ gpc["reader"] = "ran"
    /\ reader.v.name = "org.freedesktop.DBus.Properties.PropertiesChanged"
    /\ "b2" \in lockedHintSignals
    /\ reader.v.body = "true" /\ last.delivered = {"b2"} /\ buf["b2"] = <<"true">>

\* The goroutines between Lock and Unlock of muSignals.
InCriticalSection == {g \in Goroutines : gpc[g] \in {"locked", "ran"}}

\* The kinds of signal of the facility.
FacilityKinds ==
    IF facility = "lock" THEN {"Lock", "Unlock", "LockedHint"}
    ELSE {"PrepareForSleep", "PrepareForShutdown"}

\* C15: in every interleaving of subscribe and unsubscribe calls of several
\* goroutines with dispatches of the reader, transport calls succeeding, at
\* most one goroutine is inside a critical section, nothing panics, the
\* goroutine inside holds the mutex, and whenever no call is in progress a
\* kind's match rule is on the bus (and, for the session-lock facility, its
\* flag is set) exactly when its subscriber set is non-empty.
C15_MutualExclusion ==
    facility \in {"lock", "inhibit"} =>
        /\ Cardinality(InCriticalSection) <= 1
        /\ \A g \in InCriticalSection : muSignals = g
        /\ ~panicked
        /\ InCriticalSection = {} =>
              \A k \in FacilityKinds :
                 /\ (k \in matchRules) <=> (Subs(k) # {})
                 /\ facility = "lock" => (Active(k) <=> (Subs(k) # {}))

\* Both callers have run a body, one after the other, the reader is waiting
\* for the mutex a caller holds, and a channel is subscribed.
C15_Witness ==
    /\ facility = "lock"
    /\ gpc["g1"] = "ran" /\ gpc["g2"] = "idle" /\ gpc["reader"] = "received"
    /\ ~ReturnsEarly(reader.v)
    /\ last.op = "RemoveLockSignal" /\ last.ch = "s1"
    /\ lockSignals = {"s2"} /\ "Lock" \in matchRules

\* A body ran in this step (of a caller's method or of the reader's
\* handleIncomingSignal).
BodyRan(g) == gpc[g] = "locked" /\ gpc'[g] = "ran"

\* C17: a dispatch runs with no subscribe or unsubscribe call between its
\* Lock and Unlock, and tries exactly the channels of its kind's set as the
\* last completed call left it; a Remove* / Unsubscribe* call for c leaves c
\* out of the set, and c comes back into a set only by an Add* / Subscribe*
\* call for c: so no event dispatched after the removal returned is sent to c.
C17_DispatchAtomic ==
    [][/\ BodyRan("reader") /\ last'.kind # "none" =>
             /\ \A g \in Callers : gpc[g] = "idle"
             /\ \A c \in Chans :
                   last'.attempts[c] = (IF c \in Subs(last'.kind) THEN 1 ELSE 0)
             /\ \A c \in last'.delivered : c \in Subs(last'.kind)
       /\ \A g \in Callers :
             BodyRan(g) =>
                /\ gpc["reader"] \in {"idle", "received"}
                /\ last'.op \in LockRemoveOps \cup InhibitUnsubscribeOps =>
                      \E k \in FacilityKinds :
                         k = last'.kind /\ last'.ch \notin Subs(k)'
                /\ \A k \in FacilityKinds :
                      \A c \in Subs(k)' \ Subs(k) :
                         /\ last'.op \in LockAddOps \cup InhibitSubscribeOps
                         /\ last'.ch = c /\ last'.kind = k
       /\ (\A g \in Goroutines : ~BodyRan(g)) =>
             \A k \in FacilityKinds : Subs(k)' = Subs(k)
      ]_vars

\* s2 got a Lock event while subscribed and was removed; the reader then
\* dispatched a Lock signal, which went to s1 alone.
C17_Witness ==
    /\ facility = "lock"
    /\ gpc["reader"] = "ran" /\ last.op = "dcHandleIncomingSignal"
    /\ last.kind = "Lock"
    /\ lockSignals = {"s1"} /\ unlockSignals = {}
    /\ buf["s2"] = <<"unit">>
    /\ last.attempts["s1"] = 1 /\ last.attempts["s2"] = 0

C20_CloseNeverWaits ==
    [][/\ \A g \in Closers :
             (facility = "idle" /\ ~panicked /\ pc[g] = "checked") =>
                 ENABLED nCloseSpawn(g)
       /\ destroyed' # destroyed =>
             /\ owner.at = "select"
             /\ last'.op = "closeFunc"
             /\ pc' = pc
      ]_vars

\* The owner thread called Close from inside a dispatched function and Close
\* has returned, with the owner still inside that function: the helper
\* goroutine waits and nothing has been destroyed.
C20_Witness ==
    /\ facility = "idle" /\ ~panicked
    /\ owner.at = "callback"
    /\ last.op = "nClose" /\ last.kind = "spawn" /\ last.ch = OwnerThread
    /\ pc[OwnerThread] = "idle"
    /\ helpers = 1 /\ destroyed = 0

\* C19 as stated: once the controller has been closed, the request of every
\* goroutine still waiting is dropped, so no Destroy is executed any more.
C19_DroppedAfterClose ==
    [][m_close = "closed" => destroyed' = destroyed]_vars

\* C19, amended: a waiting goroutine of Close ends in one of two ways, by the
\* shutdown case, which needs the controller closed and drops the request
\* without Destroy, or by the owner taking the request from its select and
\* running Destroy; and once the controller has been closed, the goroutines
\* waiting all end (or the process has died of a panic).
C19_HelpersTerminate ==
    /\ [][helpers' < helpers =>
            \/ /\ m_close = "closed"
               /\ dropped' = dropped + 1 /\ destroyed' = destroyed
               /\ last'.kind = "dropped"
            \/ /\ owner.at = "select"
               /\ destroyed' = destroyed + 1 /\ dropped' = dropped
               /\ last'.kind = "Destroy"]_vars
    /\ (m_close = "closed" /\ helpers > 0) ~> (helpers = 0 \/ panicked)

\* After the controller was closed, the waiting goroutine took the shutdown
\* case: its request was dropped and nothing was destroyed.
C19_Witness ==
    /\ facility = "idle" /\ ~panicked
    /\ m_close = "closed"
    /\ last.op = "closeFunc" /\ last.kind = "dropped"
    /\ helpers = 0 /\ dropped = 1 /\ destroyed = 0

\* C21: notification.Destroy() runs only in a step of the owner, taken from
\* its select, for one closeFunc handed over by one waiting goroutine; never
\* in a step of Close or of the waiting goroutine's shutdown case.  The owner
\* runs one dispatched function at a time: it takes a function only from its
\* select, and runs no closeFunc while inside a dispatch function.
C21_DestroyOnOwnerOnly ==
    [][/\ destroyed' # destroyed =>
             /\ last'.op = "closeFunc" /\ last'.kind = "Destroy"
             /\ owner.at = "select" /\ owner'.at = "select"
             /\ destroyed' = destroyed + 1 /\ helpers' = helpers - 1
             /\ pc' = pc /\ n_closed' = n_closed
       /\ last'.op = "nClose" => destroyed' = destroyed
       /\ last'.kind = "dropped" => destroyed' = destroyed
       /\ (last'.op = "dispatchFunc" /\ last'.kind = "taken") =>
             owner.at = "select" /\ owner'.at = "callback"
       /\ owner.at = "callback" => destroyed' = destroyed
      ]_vars

\* Close was called by a goroutine other than the owner thread only, and the
\* owner has run the closeFunc: the notification is destroyed once.
C21_Witness ==
    /\ facility = "idle" /\ ~panicked
    /\ calls["g2"] = 1 /\ calls[OwnerThread] = 0
    /\ last.op = "closeFunc" /\ last.kind = "Destroy"
    /\ destroyed = 1 /\ helpers = 0

\* A goroutine of handler h ended in this step.
SenderEnds(h) == senders'[h] = senders[h] - 1

\* C22: a handler called on the owner only starts one goroutine and returns:
\* the step delivers nothing and leaves the owner where it was, and the owner
\* can leave the dispatch function however many goroutines wait for a
\* consumer.  A goroutine of a handler ends by delivering one value or by the
\* shutdown case, which needs the controller closed; and goroutines do not
\* wait for ever with the controller closed: while some wait, one ends again
\* and again (or the process has died of a panic).
C22_HandlerOnlySpawns ==
    /\ [][\A h \in HandlerKinds :
            /\ senders'[h] > senders[h] =>
                  /\ senders'[h] = senders[h] + 1
                  /\ owner.at = "callback" /\ owner' = owner
                  /\ last'.op = "handler" /\ last'.val = "none"
                  /\ \A o \in HandlerKinds \ {h} : senders'[o] = senders[o]
            /\ SenderEnds(h) =>
                  /\ last'.op = "sender" /\ last'.kind = h
                  /\ \/ last'.ret = "ok" /\ last'.val = "unit"
                     \/ last'.ret = "closed" /\ last'.val = "none"
                                             /\ m_close = "closed"
                  /\ \A o \in HandlerKinds \ {h} : senders'[o] = senders[o]
            /\ senders'[h] \in {senders[h] - 1, senders[h], senders[h] + 1}
            /\ (facility = "idle" /\ ~panicked /\ owner.at = "callback"
                   /\ pc[OwnerThread] = "idle") => ENABLED ownerReturns
         ]_vars
    /\ \A h \in HandlerKinds :
          \/ []<>(panicked \/ ~(m_close = "closed" /\ senders[h] > 0))
          \/ []<><<SenderEnds(h)>>_vars

\* Both handlers ran in one dispatch function and the owner is back in its
\* select, with no consumer having read: two goroutines wait.
C22_Witness ==
    /\ facility = "idle" /\ ~panicked
    /\ owner.at = "select" /\ last.op = "dispatchFunc" /\ last.kind = "returned"
    /\ senders = [h \in HandlerKinds |-> 1]
    /\ m_close = "open"

\* The teardown steps of the controller's Close.
TeardownSteps == {"seat", "display", "notifier", "conn"}

\* C23: a Close of the controller runs the display's and the notifier's
\* Destroy and the connection's Close (and the seat's Release when there is a
\* seat) whichever of them fail, closes the shutdown channel, and returns the
\* join of the errors of the steps that failed, nil when none failed.
C23_AllStepsAttempted ==
    last.op = "cClose" =>
        /\ TeardownSteps \ {"seat"} \subseteq Kinds(last.rmIssued)
        /\ m_close = "closed"
        /\ last.ret = (IF Failed(last.rmIssued) = {} THEN "ok" ELSE "err")

\* The match rule of kind k is set up on the bus, as the facility accounts
\* for it: the dbusCon's flag, and for the Inhibitor, which has no flag, a
\* subscriber in the set.
Subscribed(k) == IF facility = "lock" THEN Active(k) ELSE Subs(k) # {}

\* C24: Close of a session-lock or inhibition facility leaves every
\* subscriber set empty, issues a remove-match for the kinds whose match rule
\* is set up and for no other, one kind's failure not stopping the others,
\* and returns the join of the failures.
C24_CloseRemovesActive ==
    [][last'.op \in {"dcClose", "iClose"} =>
          /\ \A k \in FacilityKinds : Subs(k)' = {}
          /\ Kinds(last'.rmIssued) = {k \in FacilityKinds : Subscribed(k)}
          /\ last'.ret = (IF Failed(last'.rmIssued) = {} THEN "ok" ELSE "err")
      ]_vars

\* C25: an unsubscribe whose remove-match call fails (it is issued when the
\* call empties the set) returns an error and leaves the set empty, the
\* channel removed; a dispatch tries only channels of its kind's set, and a
\* channel enters a set only by a subscribe call for it, so later events of
\* the kind do not reach the removed channel.
C25_NoRollback ==
    [][/\ (/\ last'.op \in LockRemoveOps \cup InhibitUnsubscribeOps
           /\ Failed(last'.rmIssued) # {}) =>
             /\ last'.ret = "err"
             /\ \E k \in FacilityKinds :
                   /\ k = last'.kind
                   /\ Failed(last'.rmIssued) = {k}
                   /\ last'.ch \in Chans
                   /\ Subs(k) \subseteq {last'.ch}
                   /\ Subs(k)' = {}
       /\ last'.op \in DispatchOps =>
             \A c \in Chans :
                last'.attempts[c] > 0 => c \in Subs(last'.kind)
       /\ \A k \in FacilityKinds :
             \A c \in Subs(k)' \ Subs(k) :
                /\ last'.op \in LockAddOps \cup InhibitSubscribeOps
                /\ last'.ch = c /\ last'.kind = k
      ]_vars

\* The removal of the last Lock subscriber failed on the bus (the flag is
\* still set, the set is empty), and a Lock event dispatched afterwards was
\* sent to no channel.
C25_Witness ==
    /\ facility = "lock" /\ ~panicked
    /\ lockSignals = {} /\ lockSignalActive
    /\ last.op = "dcHandleIncomingSignal" /\ last.kind = "Lock"
    /\ last.attempts = NoAttempts

\* C26: in the inhibition facility a Subscribe or Unsubscribe call issues
\* add-match only when it finds its kind's set empty (and, the call
\* succeeding, leaves it non-empty), and remove-match only when it takes the
\* set from non-empty to empty; a call that crosses such an edge issues the
\* call for its kind once, and no call issues anything for another kind.
C26_MatchOncePerEdge ==
    [][last'.op \in InhibitSubscribeOps \cup InhibitUnsubscribeOps =>
          \E k \in FacilityKinds :
             /\ k = last'.kind
             /\ Kinds(last'.addIssued) \subseteq {k}
             /\ Kinds(last'.rmIssued) \subseteq {k}
             /\ last'.addIssued # {} =>
                   /\ Subs(k) = {}
                   /\ Failed(last'.addIssued) = {} => Subs(k)' # {}
             /\ last'.rmIssued # {} => Subs(k) # {} /\ Subs(k)' = {}
             /\ (Subs(k) = {} /\ Subs(k)' # {}) => Cardinality(last'.addIssued) = 1
             /\ (Subs(k) # {} /\ Subs(k)' = {}) => Cardinality(last'.rmIssued) = 1
      ]_vars

\* C27: when the reader handles a signal of one of the facility's kinds whose
\* body has not the expected shape (Body[0] of PrepareForSleep or
\* PrepareForShutdown not a bool; Body[1] of PropertiesChanged not a map, or
\* its LockedHint not a bool), the call panics: no channel is tried, no
\* channel changes, and the call does not return as if the signal had been
\* skipped.
C27_MalformedIsFatal ==
    [][(BodyRan("reader") /\ ~WellFormed(reader.v)) =>
          /\ panicked' /\ last'.ret = "panic"
          /\ last'.op \in DispatchOps /\ last'.kind \in FacilityKinds
          /\ last'.attempts = NoAttempts /\ last'.delivered = {}
          /\ buf' = buf /\ recvWaiting' = recvWaiting
      ]_vars

\* The reader handled a PropertiesChanged signal whose LockedHint is not a
\* bool while b2 was subscribed: the process has panicked and b2 is empty.
C27_Witness ==
    /\ facility = "lock" /\ panicked
    /\ gpc["reader"] = "ran" /\ reader.v.body = "notbool"
    /\ lockedHintSignals = {"b2"} /\ buf["b2"] = <<>>

\* The facility's object path and, by signal name, its kinds.
FacilityPath == IF facility = "lock" THEN "session" ELSE "login1"
KindOf(name) ==
    CASE facility = "lock" /\ name = "org.freedesktop.login1.Session.Lock" -> "Lock"
      [] facility = "lock" /\ name = "org.freedesktop.login1.Session.Unlock" -> "Unlock"
      [] facility = "lock" /\ name = "org.freedesktop.DBus.Properties.PropertiesChanged"
            -> "LockedHint"
      [] facility = "inhibit" /\ name = "org.freedesktop.login1.Manager.PrepareForSleep"
            -> "PrepareForSleep"
      [] facility = "inhibit" /\ name = "org.freedesktop.login1.Manager.PrepareForShutdown"
            -> "PrepareForShutdown"
      [] OTHER -> "none"

\* The reader's call of handleIncomingSignal(v) returns or panics in this
\* step: before the mutex for a nil signal or another path, under it
\* otherwise.
Handled ==
    /\ gpc["reader"] \in {"received", "locked"}
    /\ gpc'["reader"] \in {"idle", "ran"}

\* C28: a call of handleIncomingSignal changes a channel only when the signal
\* is not nil, its path is the facility's object path and its name is one of
\* the facility's kinds, and then only channels of that kind's set; a nil
\* signal, a signal of another path or of another name changes no channel,
\* no set, no flag, and does not panic.
C28_PathAndNameFilter ==
    [][Handled =>
          LET s == reader.v
              matches == ~s.isNil /\ s.path = FacilityPath /\ KindOf(s.name) # "none"
          IN /\ \A c \in Chans :
                   (buf'[c] # buf[c] \/ (c \in recvWaiting) # (c \in recvWaiting')
                       \/ last'.attempts[c] > 0) =>
                      matches /\ c \in Subs(KindOf(s.name))
             /\ ~matches =>
                   /\ last'.kind = "none" /\ last'.ret = "ok"
                   /\ panicked' = panicked
             /\ lockVars' = lockVars /\ inhibitVars' = inhibitVars
      ]_vars

\* With s2 subscribed to Lock, the reader handled a Lock signal of another
\* object's path: s2 got nothing.
C28_Witness ==
    /\ facility = "lock" /\ ~panicked
    /\ last.op = "dcHandleIncomingSignal" /\ last.kind = "none"
    /\ gpc["reader"] = "idle"
    /\ lockSignals = {"s2"} /\ lockSignalActive /\ buf["s2"] = <<>>

\* a is b with elements left out: the same values in the same order.
RECURSIVE IsSubsequence(_, _)
IsSubsequence(a, b) ==
    IF a = <<>> THEN TRUE
    ELSE IF b = <<>> THEN FALSE
    ELSE IF Head(a) = Head(b) THEN IsSubsequence(Tail(a), Tail(b))
    ELSE IsSubsequence(a, Tail(b))

\* C29: what the consumer of a channel has received, followed by what waits
\* in the channel's buffer, is a subsequence of the PrepareForSleep events in
\* the order the reader took them from the transport: values are dropped,
\* never reordered and never repeated.
C29_ReceivedInOrder ==
    facility = "inhibit" =>
        \A c \in BoolChans :
           IsSubsequence(order.received[c] \o buf[c], order.dispatched)

\* The reader took true, false, true; the consumer of b1 got the first and
\* the third, the second was dropped for it.
C29_Witness ==
    /\ facility = "inhibit" /\ ~panicked
    /\ order.dispatched = <<"true", "false", "true">>
    /\ order.received["b1"] = <<"true", "true">>
    /\ order.received["b2"] = <<"true", "false">>

\* C30: a subscribe or unsubscribe call on one kind leaves the set and the
\* flag of every other kind of the facility as they were and issues no
\* add-match or remove-match for another kind; a dispatch of one kind tries
\* and changes only channels of that kind's set.
C30_KindsIndependent ==
    [][/\ last'.op \in LockAddOps \cup LockRemoveOps
                        \cup InhibitSubscribeOps \cup InhibitUnsubscribeOps =>
             \A o \in FacilityKinds \ {last'.kind} :
                /\ Subs(o)' = Subs(o)
                /\ Active(o)' = Active(o)
                /\ o \notin Kinds(last'.addIssued) \cup Kinds(last'.rmIssued)
       /\ (last'.op \in DispatchOps /\ last'.kind # "none") =>
             /\ last'.kind \in FacilityKinds
             /\ \A c \in Chans \ Subs(last'.kind) :
                   /\ last'.attempts[c] = 0 /\ c \notin last'.delivered
                   /\ buf'[c] = buf[c]
                   /\ (c \in recvWaiting') = (c \in recvWaiting)
      ]_vars

\* s1 is subscribed to Lock and s2 to Unlock, both match rules are set up,
\* and an Unlock event was dispatched: it was tried on s2 and not on s1.
C30_Witness ==
    /\ facility = "lock" /\ ~panicked
    /\ lockSignals = {"s1"} /\ unlockSignals = {"s2"}
    /\ lockSignalActive /\ unlockSignalActive
    /\ last.op = "dcHandleIncomingSignal" /\ last.kind = "Unlock"
    /\ last.attempts["s2"] = 1 /\ last.attempts["s1"] = 0

====
